---- MODULE Spec2Model ----
(***************************************************************************)
(* A state-machine model of rocketpy.Environment (atmospheric model        *)
(* orchestration, gridded ingestion, ensemble member selection, wind gust  *)
(* superposition) and of the named-feed retry loop of setAtmosphericModel. *)
(*                                                                         *)
(* Units.  Heights are metres, pressures pascal, temperatures centi-kelvin *)
(* (288.15 K is 28815), times are whole hours.  Real-valued formulas are   *)
(* evaluated in integer arithmetic, rounding toward minus infinity, and    *)
(* every product is kept below 2^31.                                       *)
(***************************************************************************)
EXTENDS Integers, Sequences, FiniteSets, TLC

VARIABLES
    \* ---- Environment: model metadata
    atmosphericModelType,   \* self.atmosphericModelType
    atmosphericModelFile,   \* self.atmosphericModelFile (NoAttr until assigned)
    atmosphericModelDict,   \* self.atmosphericModelDict (NoDict until assigned)
    \* ---- Environment: launch site and date
    latitude, longitude, datetime_date,
    \* ---- Environment: active profiles
    pressure, temperature,
    windVelocityX, windVelocityY, windHeading, windDirection, windSpeed,
    density, speedOfSound, dynamicViscosity,
    maxExpectedHeight, elevation,
    \* ---- Environment: ensemble raw data and cursor
    ensembleData,           \* the *Ensemble arrays and numEnsembleMembers
    ensembleMember,         \* self.ensembleMember
    \* ---- bookkeeping of the model, not program state
    lastCall,               \* the last public call, its outcome, the member before it
    calls,                  \* number of public calls made on the object
    \* ---- locals of setAtmosphericModel while a named feed is being fetched
    pc, feed, startTime, timeAttempt, attemptCount, success, file, attempts,
    \* ---- the last application of one of the sub-algorithms on its own
    applied,
    \* ---- a propellant tank: the object, how its constructor ended and the
    \* ---- last property read from it
    tank, construction, evaluated,
    \* ---- a Rocket (its eccentricities) and a LiquidMotor (its tanks and
    \* ---- the values its cached properties hold)
    rocket, motor

metaVars == <<atmosphericModelType, atmosphericModelFile, atmosphericModelDict>>
siteVars == <<latitude, longitude, datetime_date>>
windVars == <<windVelocityX, windVelocityY, windHeading, windDirection, windSpeed>>
sourceVars == <<pressure, temperature, windVelocityX, windVelocityY,
                windHeading, windDirection, windSpeed>>
derivedVars == <<density, speedOfSound, dynamicViscosity>>
ensVars == <<ensembleData, ensembleMember>>
envVars == <<metaVars, siteVars, sourceVars, derivedVars, maxExpectedHeight,
             elevation, ensVars>>
loopVars == <<pc, feed, startTime, timeAttempt, attemptCount, success, file, attempts>>
tankVars == <<tank, construction, evaluated>>
vehicleVars == <<rocket, motor>>
asideVars == <<applied, tankVars, vehicleVars>>
vars == <<envVars, lastCall, calls, loopVars, asideVars>>

(***************************************************************************)
(* Bounds of the model.                                                    *)
(***************************************************************************)
NumMembers == 2        \* members stored in the ensemble file
MaxGusts == 1          \* addWindGust calls explored
MaxCalls == 3          \* public calls made on one Environment

(***************************************************************************)
(* Program constants (scaled to integers).                                 *)
(***************************************************************************)
earthRadius == 6378100          \* 6.3781 * 10**6 m
airGasConstant == 28705         \* 287.05287 J/K/kg, in 1e-2
standard_g == 9807              \* 9.80665 m/s2, in 1e-3
MaxAttempts == 10               \* attemptCount < 10
DefaultCustomHeight == 1000     \* maxExpectedHeight = 1000
StandardMaxHeight == 80000      \* self.maxExpectedHeight = 80000

(***************************************************************************)
(* Arithmetic helpers.                                                     *)
(***************************************************************************)
Max(a, b) == IF a >= b THEN a ELSE b
Abs(a) == IF a < 0 THEN -a ELSE a

RECURSIVE SqrtSearch(_, _, _)
SqrtSearch(n, lo, hi) ==
    IF lo >= hi THEN lo
    ELSE LET mid == (lo + hi + 1) \div 2
         IN IF mid * mid <= n THEN SqrtSearch(n, mid, hi)
                              ELSE SqrtSearch(n, lo, mid - 1)

\* floor of the square root, for 0 <= n < 2^31
ISqrt(n) == SqrtSearch(n, 0, 46340)

\* np.arctan2(u, v) * (180 / np.pi) % 360, to the nearest degree on the
\* eight compass directions and by the chord approximation in between.
Atan2Deg(u, v) ==
    LET au == Abs(u)
        av == Abs(v)
        \* angle from the v axis toward the u axis in the first quadrant
        q == IF au = 0 THEN 0
             ELSE IF av = 0 THEN 90
             ELSE IF au <= av THEN (45 * au) \div av
             ELSE 90 - (45 * av) \div au
    IN IF u >= 0 /\ v >= 0 THEN q % 360
       ELSE IF u >= 0 /\ v < 0 THEN (180 - q) % 360
       ELSE IF u < 0 /\ v < 0 THEN (180 + q) % 360
       ELSE (360 - q) % 360

(***************************************************************************)
(* The Function abstraction: a profile is a value describing how it is     *)
(* evaluated.  Arithmetic on Functions is pointwise and lazy: the result   *)
(* keeps the operand objects it was built from.                            *)
(***************************************************************************)
ConstProfile(v) == [kind |-> "const", v |-> v]
TableProfile(pts) == [kind |-> "table", pts |-> pts]
SumProfile(a, g) == [kind |-> "sum", a |-> a, g |-> g]
pressureISA == [kind |-> "pressureISA"]
temperatureISA == [kind |-> "temperatureISA"]
\* the lambdas that read self.windVelocityX / self.windVelocityY when called
SelfHeading == [kind |-> "selfHeading"]
SelfDirection == [kind |-> "selfDirection"]
SelfSpeed == [kind |-> "selfSpeed"]

\* Function(source): a scalar gives a constant profile, an array a table
Function(source) ==
    IF source.kind = "scalar" THEN ConstProfile(source.v)
    ELSE TableProfile(source.pts)

\* linear interpolation in a table of <<height, value>> rows sorted by
\* height, constant outside the sampled range
RECURSIVE Interpolate(_, _, _)
Interpolate(pts, h, k) ==
    IF h <= pts[1][1] THEN pts[1][2]
    ELSE IF k >= Len(pts) THEN pts[Len(pts)][2]
    ELSE IF h <= pts[k + 1][1]
         THEN pts[k][2] + ((pts[k + 1][2] - pts[k][2]) * (h - pts[k][1]))
                            \div (pts[k + 1][1] - pts[k][1])
    ELSE Interpolate(pts, h, k + 1)

(***************************************************************************)
(* International Standard Atmosphere (loadInternationalStandardAtmosphere) *)
(***************************************************************************)
isa_geopotential_height == <<-2000, 0, 11000, 20000, 32000, 47000, 51000, 71000, 80000>>
isa_temperature == <<30115, 28815, 21665, 21665, 22865, 27065, 27065, 21465, 19665>>
isa_pressure == <<127774, 101325, 22632, 5474, 868, 110, 66, 3, 0>>

\* ER * H / (ER - H), computed as H + H^2 / (ER - H) on tens of metres
GeopotentialToGeometric(H) ==
    H + ((H \div 10) * (H \div 10)) \div ((earthRadius - H) \div 100)

\* ER * h / (ER + h), computed as h - h^2 / (ER + h), to the nearest metre
GeometricToGeopotential(h) ==
    LET d == (earthRadius + h) \div 100
    IN h - ((h \div 10) * (h \div 10) + d \div 2) \div d

\* bisect.bisect(a, x): the number of entries of the ascending a that are <= x
Bisect(a, x) == Cardinality({k \in 1..Len(a) : a[k] <= x})
\* bisect.bisect_left(a, x): the number of entries of a that are < x
BisectLeft(a, x) == Cardinality({k \in 1..Len(a) : a[k] < x})

\* the rows of the temperatureISA table
isa_table ==
    [k \in 1..Len(isa_geopotential_height) |->
        <<GeopotentialToGeometric(isa_geopotential_height[k]), isa_temperature[k]>>]

\* a layer search that never selects the top layer
IsaLayerBelowTop(H) ==
    IF Bisect(isa_geopotential_height, H) = Len(isa_geopotential_height)
    THEN Len(isa_geopotential_height) - 2
    ELSE Bisect(isa_geopotential_height, H) - 1

\* "Find layer that contains height h": the 0-based index of the layer
IsaLayer(H) == Bisect(isa_geopotential_height, H) - 1

\* "Compute pressure" in the 0-based layer.  The power and the exponential
\* are real-valued; they are exact (equal to 1) at the layer base and are
\* replaced above it by the straight line to the next layer base.
LayerPressure(layer, H) ==
    LET Hb == isa_geopotential_height[layer + 1]
        Pb == isa_pressure[layer + 1]
    IN IF H = Hb \/ layer + 1 = Len(isa_pressure) THEN Pb
       ELSE Pb + ((isa_pressure[layer + 2] - Pb) * ((H - Hb) \div 100))
                    \div ((isa_geopotential_height[layer + 2] - Hb) \div 100)

\* pressure_function from the bounds check on, for the geopotential height H
PressureOfGeopotential(H) ==
    IF H < isa_geopotential_height[1] THEN isa_pressure[1]
    ELSE IF H > isa_geopotential_height[Len(isa_geopotential_height)]
         THEN isa_pressure[Len(isa_pressure)]
    ELSE LayerPressure(IsaLayer(H), H)

\* pressure_function(h), h the geometric height
pressure_function(h) == PressureOfGeopotential(GeometricToGeopotential(h))

(***************************************************************************)
(* Derived quantities, pointwise.                                          *)
(***************************************************************************)
\* P / (R * T), in g/m3
DensityAt(P, T) == (P * 1000) \div ((airGasConstant * T) \div 10000)

\* (1.4 * R * T) ** 0.5, in dm/s
SpeedOfSoundAt(T) == ISqrt(14 * ((airGasConstant * T) \div 10000) * 10)

\* (B * T**1.5) / (T + S) with B = 1.458e-6 and S = 110.4, in 1e-9 Pa s
DynamicViscosityAt(T) ==
    (1458 * ((T * ISqrt(T * 100)) \div 10000) * 100) \div (T + 11040)

\* calculateDensityProfile: D = P / (R * T), built from the Function objects
\* that are the pressure and the temperature at the time of the call
DensityOf(P, T) == [kind |-> "density", P |-> P, T |-> T]
\* calculateSpeedOfSoundProfile: a = (G * R * T) ** 0.5
SpeedOfSoundOf(T) == [kind |-> "speedOfSound", T |-> T]
\* calculateDynamicViscosity: u = (B * T ** 1.5) / (T + S)
DynamicViscosityOf(T) == [kind |-> "dynamicViscosity", T |-> T]

\* the value of a profile at height h; wx and wy are the Functions that
\* self.windVelocityX and self.windVelocityY hold when the profile is called
RECURSIVE Eval(_, _, _, _)
Eval(p, h, wx, wy) ==
    CASE p.kind = "const" -> p.v
      [] p.kind = "table" -> Interpolate(p.pts, h, 1)
      [] p.kind = "sum" -> Eval(p.a, h, wx, wy) + p.g
      [] p.kind = "pressureISA" -> pressure_function(h)
      [] p.kind = "temperatureISA" -> Interpolate(isa_table, h, 1)
      [] p.kind = "selfHeading" ->
            Atan2Deg(Eval(wx, h, wx, wy), Eval(wy, h, wx, wy))
      [] p.kind = "selfDirection" ->
            (Atan2Deg(Eval(wx, h, wx, wy), Eval(wy, h, wx, wy)) - 180) % 360
      [] p.kind = "selfSpeed" ->
            ISqrt(Eval(wx, h, wx, wy) * Eval(wx, h, wx, wy)
                  + Eval(wy, h, wx, wy) * Eval(wy, h, wx, wy))
      [] p.kind = "density" ->
            DensityAt(Eval(p.P, h, wx, wy), Eval(p.T, h, wx, wy))
      [] p.kind = "speedOfSound" -> SpeedOfSoundAt(Eval(p.T, h, wx, wy))
      [] p.kind = "dynamicViscosity" -> DynamicViscosityAt(Eval(p.T, h, wx, wy))

\* heights at which profiles are compared: sea level, a height between two
\* levels, and the geometric height of the 11 km layer base
SampleHeights == {0, 3000, GeopotentialToGeometric(isa_geopotential_height[3])}

\* the values of a profile at the sample heights
Samples(p, wx, wy) == [h \in SampleHeights |-> Eval(p, h, wx, wy)]

(***************************************************************************)
(* Gridded datasets (what netCDF4.Dataset(file) gives).  A dataset is      *)
(* described by its variables and axes; the value of a field at a grid     *)
(* point is a formula of the coordinates, a multiple of 4 so that the      *)
(* interpolation at whole degrees on a 2-degree grid is exact.             *)
(***************************************************************************)
None == "None"                      \* Python's None where a name is expected
NoAttr == "<no attribute>"          \* an attribute that was never assigned
Masked == 0 - 999999                \* a masked entry of a numpy masked array

NoaaVars == {"time", "lat", "lon", "lev", "tmpprs", "hgtprs", "ugrdprs", "vgrdprs"}
EcmwfVars == {"time", "latitude", "longitude", "level", "t", "z", "u", "v"}

NoDataset == [ok |-> FALSE, vars |-> {}, timeArray |-> <<>>, latArray |-> <<>>,
              lonArray |-> <<>>, levels |-> <<>>, numMembers |-> 0,
              offset |-> 0, masked |-> {}]

GridDataset(vs, lats, times, members, off, msk) ==
    [ok |-> TRUE, vars |-> vs, timeArray |-> times, latArray |-> lats,
     lonArray |-> <<0, 2, 4>>, levels |-> <<1000, 500, 250>>,
     numMembers |-> members, offset |-> off, masked |-> msk]

\* netCDF4.Dataset(file) for the local files of the model
Dataset(f) ==
    CASE f = "fc.nc" ->
            GridDataset(NoaaVars \cup {"hgtsfc"}, <<0, 2, 4>>, <<0, 6, 12>>, 0, 0, {})
      [] f = "nosfc.nc" ->
            GridDataset(NoaaVars, <<0, 2, 4>>, <<0, 6, 12>>, 0, 400, {})
      [] f = "era.nc" ->
            GridDataset(EcmwfVars, <<4, 2, 0>>, <<0, 6, 12>>, 0, 800, {})
      [] f = "ens.nc" ->
            GridDataset(NoaaVars \cup {"ens"}, <<0, 2, 4>>, <<0, 6, 12>>, NumMembers,
                        1200, {<<"ugrdprs", 1, 3>>})
      [] OTHER -> NoDataset

\* the value stored in variable var at time index t, member m (0-based),
\* level index lev and the grid point of latitude la and longitude lo
GridValue(ds, var, t, m, lev, la, lo) ==
    LET height == (CASE lev = 1 -> 100 [] lev = 2 -> 5600 [] OTHER -> 11800)
                  + 4 * la + 8 * lo + 40 * (t - 1) + 200 * m + ds.offset
    IN IF <<var, m, lev>> \in ds.masked THEN Masked
       ELSE CASE var \in {"hgtprs"} -> height
              [] var \in {"z"} -> (height * standard_g) \div 1000
              [] var \in {"tmpprs", "t"} ->
                    28800 - 3200 * (lev - 1) + 4 * la + 8 * lo + 40 * (t - 1)
                    + 400 * m + ds.offset \div 4
              [] var \in {"ugrdprs", "u"} -> 4 * lev + 4 * la - 8 * m
              [] var \in {"vgrdprs", "v"} -> 8 * lev - 4 * lo + 4 * (t - 1)
              [] var \in {"hgtsfc"} -> 400 + 4 * la + 8 * lo + ds.offset
              [] OTHER -> 0

(***************************************************************************)
(* The dictionaries of setAtmosphericModel.  A dictionary argument is the  *)
(* string "ECMWF" or "NOAA", None, or a mapping; a mapping without the     *)
(* "ensemble" key holds NoAttr there.                                      *)
(***************************************************************************)
DictECMWF == [preset |-> "ECMWF"]
DictNOAA == [preset |-> "NOAA"]
DictNone == [preset |-> None]
NoDict == [preset |-> NoAttr]

ForecastNoaaDict ==
    [preset |-> "mapping", time |-> "time", latitude |-> "lat", longitude |-> "lon",
     level |-> "lev", ensemble |-> NoAttr, temperature |-> "tmpprs",
     surface_geopotential_height |-> "hgtsfc", geopotential_height |-> "hgtprs",
     geopotential |-> None, u_wind |-> "ugrdprs", v_wind |-> "vgrdprs"]

ForecastEcmwfDict ==
    [preset |-> "mapping", time |-> "time", latitude |-> "latitude",
     longitude |-> "longitude", level |-> "level", ensemble |-> NoAttr,
     temperature |-> "t", surface_geopotential_height |-> None,
     geopotential_height |-> None, geopotential |-> "z", u_wind |-> "u", v_wind |-> "v"]

EnsembleNoaaDict ==
    [preset |-> "mapping", time |-> "time", latitude |-> "lat", longitude |-> "lon",
     level |-> "lev", ensemble |-> "ens", temperature |-> "tmpprs",
     surface_geopotential_height |-> None, geopotential_height |-> "hgtprs",
     geopotential |-> None, u_wind |-> "ugrdprs", v_wind |-> "vgrdprs"]

EnsembleEcmwfDict ==
    [preset |-> "mapping", time |-> "time", latitude |-> "latitude",
     longitude |-> "longitude", level |-> "level", ensemble |-> "number",
     temperature |-> "t", surface_geopotential_height |-> None,
     geopotential_height |-> None, geopotential |-> "z", u_wind |-> "u", v_wind |-> "v"]

(***************************************************************************)
(* Shared sub-algorithms of gridded ingestion.  Python indices are kept    *)
(* as they are in the code (0-based); At reads a list at a Python index.   *)
(***************************************************************************)
At(a, k) == a[k + 1]
Last(a) == a[Len(a)]
Reverse(a) == [k \in 1..Len(a) |-> a[Len(a) + 1 - k]]

\* netCDF4.date2index(date, timeArray, select="nearest"), 0-based
NearestTimeIndex(timeArray, t) ==
    CHOOSE i \in 0..(Len(timeArray) - 1) :
        \A j \in 0..(Len(timeArray) - 1) :
            \/ Abs(At(timeArray, i) - t) < Abs(At(timeArray, j) - t)
            \/ Abs(At(timeArray, i) - t) = Abs(At(timeArray, j) - t) /\ i <= j

\* a range check that looks at the start of the file only
TimeBeforeFile(timeArray, t) ==
    NearestTimeIndex(timeArray, t) = 0 /\ t < At(timeArray, 0)

\* "Check if time is inside range supplied by file"
TimeOutsideFile(timeArray, t) ==
    LET timeIndex == NearestTimeIndex(timeArray, t)
        fileTimeNum == At(timeArray, timeIndex)
    IN \/ timeIndex = 0 /\ t < fileTimeNum
       \/ timeIndex = Len(timeArray) - 1 /\ t > fileTimeNum

\* "Check if time is exactly equal to one in the file": the warning
TimeNotExact(timeArray, t) == At(timeArray, NearestTimeIndex(timeArray, t)) # t

\* "Determine if file uses -180 to 180 or 0 to 360" and convert the input
NormalizeLongitude(lonArray, lon) ==
    IF lonArray[1] < 0 \/ Last(lonArray) < 0
    THEN IF lon < 180 THEN lon ELSE (lon % 180) - 180
    ELSE lon % 360

\* the index search without the retreat at the last grid value
LocateIndexWithoutRetreat(arr, x) ==
    IF arr[1] < Last(arr) THEN Bisect(arr, x)
    ELSE Len(arr) - BisectLeft(Reverse(arr), x)

\* the index search of a coordinate in a sorted or reversed grid axis,
\* with the retreat at the last grid value
LocateIndex(arr, x) ==
    LET found == IF arr[1] < Last(arr)
                 THEN Bisect(arr, x)
                 ELSE Len(arr) - BisectLeft(Reverse(arr), x)
    IN IF found = Len(arr) /\ At(arr, found - 1) = x THEN found - 1 ELSE found

\* "Check if ... value is inside the grid"
OutsideGrid(arr, index) == index = 0 \/ index = Len(arr)

IsMasked(S) == Masked \in S

\* the value at the corner (x1, y1) of the cell, wherever the query is
BilinearAtFirstCorner(x, y, x1, x2, y1, y2, f_x1_y1, f_x1_y2, f_x2_y1, f_x2_y2) ==
    f_x1_y1

\* f_x_y1, f_x_y2 and the interpolated value of one 2x2 cell
Bilinear(x, y, x1, x2, y1, y2, f_x1_y1, f_x1_y2, f_x2_y1, f_x2_y2) ==
    IF IsMasked({f_x1_y1, f_x1_y2, f_x2_y1, f_x2_y2}) THEN Masked
    ELSE LET f_x_y1 == ((x2 - x) * f_x1_y1 + (x - x1) * f_x2_y1) \div (x2 - x1)
             f_x_y2 == ((x2 - x) * f_x1_y2 + (x - x1) * f_x2_y2) \div (x2 - x1)
         IN ((y2 - y) * f_x_y1 + (y - y1) * f_x_y2) \div (y2 - y1)

\* np.sqrt(windU**2 + windV**2)
WindSpeedOf(u, v) == IF IsMasked({u, v}) THEN Masked ELSE ISqrt(u * u + v * v)
\* np.arctan2(windU, windV) * (180 / np.pi) % 360
WindHeadingOf(u, v) == IF IsMasked({u, v}) THEN Masked ELSE Atan2Deg(u, v)
\* (windHeading - 180) % 360
WindDirectionOf(heading) == IF heading = Masked THEN Masked ELSE (heading - 180) % 360
\* R * height / (R - height)
GeometricHeightOf(H) == IF H = Masked THEN Masked ELSE GeopotentialToGeometric(H)

\* np.ma.compress_rows: the rows of data_array without a masked entry
RECURSIVE CompressRows(_)
CompressRows(rows) ==
    IF rows = <<>> THEN <<>>
    ELSE IF IsMasked({rows[1][k] : k \in 1..Len(rows[1])})
         THEN CompressRows(Tail(rows))
         ELSE <<rows[1]>> \o CompressRows(Tail(rows))

\* Function(data_array[:, (1, c)]) for the columns of data_array, which are
\* levels, height, temperature, windU, windV, windHeading, windDirection, windSpeed
Column(data_array, c) ==
    TableProfile([k \in 1..Len(data_array) |-> <<data_array[k][2], data_array[k][c + 1]>>])

\* "Save atmospheric data": the seven profiles built from data_array
ProfilesOf(data_array) ==
    [pressure |-> Column(data_array, 0),
     temperature |-> Column(data_array, 2),
     windDirection |-> Column(data_array, 6),
     windHeading |-> Column(data_array, 5),
     windSpeed |-> Column(data_array, 7),
     windVelocityX |-> Column(data_array, 3),
     windVelocityY |-> Column(data_array, 4)]

(***************************************************************************)
(* Reading one dataset at the launch site.                                 *)
(***************************************************************************)
NoDate == 0 - 1                     \* self.datetime_date is None

\* weatherData.variables[name][...]: reading fails for a name the dataset
\* does not hold (None and a missing dictionary key included)
Readable(weatherData, name) == name \in weatherData.vars

\* the geopotential height read from the file: the geopotential height
\* variable, or else the geopotential divided by standard_g
GeopotentialHeightAt(weatherData, dictionary, t, m, lev, la, lo) ==
    IF Readable(weatherData, dictionary.geopotential_height)
    THEN GridValue(weatherData, dictionary.geopotential_height, t, m, lev, la, lo)
    ELSE LET z == GridValue(weatherData, dictionary.geopotential, t, m, lev, la, lo)
         IN IF z = Masked THEN Masked ELSE (z * 1000) \div standard_g

\* the cell of the launch site: indices, corner coordinates and position
CellOf(weatherData, lat, longitudeIn) ==
    LET lon == NormalizeLongitude(weatherData.lonArray, longitudeIn)
        lonIndex == LocateIndex(weatherData.lonArray, lon)
        latIndex == LocateIndex(weatherData.latArray, lat)
    IN [lon |-> lon, lonIndex |-> lonIndex, latIndex |-> latIndex]

\* one value of a field at a grid point; the height comes from the
\* geopotential height or, without it, from the geopotential
FieldValue(weatherData, dictionary, field, t, m, lev, la, lo) ==
    IF field = "height"
    THEN GeopotentialHeightAt(weatherData, dictionary, t, m, lev, la, lo)
    ELSE GridValue(weatherData, field, t, m, lev, la, lo)

\* the bilinear interpolation between the four corners v[i][j] of the cell,
\* i over the latitudes x and j over the longitudes y
BilinearInCell(lat, lon, x, y, v) ==
    Bilinear(lat, lon, x[1], x[2], y[1], y[2], v[1][1], v[1][2], v[2][1], v[2][2])

\* the two grid coordinates around index k
Around(array, k) == <<At(array, k - 1), At(array, k)>>

\* one field interpolated to the launch site, for one member and level
FieldAtSite(weatherData, dictionary, field, t, m, lev, lat, cell) ==
    BilinearInCell(lat, cell.lon,
        Around(weatherData.latArray, cell.latIndex),
        Around(weatherData.lonArray, cell.lonIndex),
        [i \in 1..2 |-> [j \in 1..2 |->
            FieldValue(weatherData, dictionary, field, t, m, lev,
                       At(weatherData.latArray, cell.latIndex - 2 + i),
                       At(weatherData.lonArray, cell.lonIndex - 2 + j))]])

\* one row of data_array: pressure level, height, temperature, windU, windV
\* and the wind heading, direction and speed computed from them
SoundingRow(level, height, T, windU, windV) ==
    <<level, height, T, windU, windV, WindHeadingOf(windU, windV),
      WindDirectionOf(WindHeadingOf(windU, windV)), WindSpeedOf(windU, windV)>>

\* the row of the fields f interpolated to the launch site
RowOfFields(level, f) ==
    SoundingRow(level, GeometricHeightOf(f[1]), f[2], f[3], f[4])

\* the row of data_array for one level (and member): level in Pa, geometric
\* height, temperature, windU, windV, windHeading, windDirection, windSpeed
LevelRow(weatherData, dictionary, t, m, lev, lat, cell) ==
    RowOfFields(100 * weatherData.levels[lev],
        [k \in 1..4 |->
            FieldAtSite(weatherData, dictionary,
                        <<"height", dictionary.temperature, dictionary.u_wind,
                          dictionary.v_wind>>[k],
                        t, m, lev, lat, cell)])

\* the checks both gridded readers make before they touch the
\* Environment; "ok" when all pass
GriddedPrecheck(weatherData, dictionary, lat, lon, date) ==
    IF date = NoDate THEN "TypeError"
    ELSE IF ~weatherData.ok THEN "OSError"
    ELSE IF ~({dictionary.time, dictionary.longitude, dictionary.latitude}
                \subseteq weatherData.vars) THEN "KeyError"
    ELSE IF TimeOutsideFile(weatherData.timeArray, date) THEN "ValueError"
    ELSE LET cell == CellOf(weatherData, lat, lon)
         IN IF OutsideGrid(weatherData.lonArray, cell.lonIndex) THEN "ValueError"
            ELSE IF OutsideGrid(weatherData.latArray, cell.latIndex) THEN "ValueError"
            ELSE "ok"

\* the reads of the per-level fields: "ok" when all can be read
FieldsReadable(weatherData, dictionary) ==
    /\ Readable(weatherData, dictionary.level)
    /\ \/ Readable(weatherData, dictionary.geopotential_height)
       \/ Readable(weatherData, dictionary.geopotential)
    /\ Readable(weatherData, dictionary.temperature)
    /\ Readable(weatherData, dictionary.u_wind)
    /\ Readable(weatherData, dictionary.v_wind)

\* "Get elevation data from file": the surface height at the launch site
SurfaceElevation(weatherData, dictionary, t, lat, cell) ==
    FieldAtSite(weatherData, dictionary, dictionary.surface_geopotential_height,
                t, 0, 1, lat, cell)

(***************************************************************************)
(* The Environment object.  self is the record of its attributes; every    *)
(* method is an operator from self (and its arguments) to the outcome of   *)
(* the call and the attributes it leaves behind.                           *)
(***************************************************************************)
Returned(self) == [outcome |-> "returned", self |-> self]
Raised(error, self) == [outcome |-> error, self |-> self]

\* "Save atmospheric data"
StoreProfiles(self, profiles) ==
    [self EXCEPT !.pressure = profiles.pressure,
                 !.temperature = profiles.temperature,
                 !.windDirection = profiles.windDirection,
                 !.windHeading = profiles.windHeading,
                 !.windSpeed = profiles.windSpeed,
                 !.windVelocityX = profiles.windVelocityX,
                 !.windVelocityY = profiles.windVelocityY]

calculateDensityProfile(self) ==
    [self EXCEPT !.density = DensityOf(self.pressure, self.temperature)]

calculateSpeedOfSoundProfile(self) ==
    [self EXCEPT !.speedOfSound = SpeedOfSoundOf(self.temperature)]

calculateDynamicViscosity(self) ==
    [self EXCEPT !.dynamicViscosity = DynamicViscosityOf(self.temperature)]

\* the three recalculations that end setAtmosphericModel and
\* selectEnsembleMember
RecalculateDerived(self) ==
    calculateDynamicViscosity(calculateSpeedOfSoundProfile(calculateDensityProfile(self)))

\* "Get elevation data from file", the last step of both gridded readers:
\* self is the Environment with the profiles already stored
ReadSurfaceElevation(self, weatherData, dictionary, t, cell) ==
    IF dictionary.surface_geopotential_height = None THEN Returned(self)
    ELSE IF ~Readable(weatherData, dictionary.surface_geopotential_height)
    THEN Raised("ValueError", self)
    ELSE Returned([self EXCEPT !.elevation =
                    SurfaceElevation(weatherData, dictionary, t, self.latitude, cell)])

\* data_array of one member: a row per pressure level
GriddedRows(weatherData, dictionary, t, m, lat, cell) ==
    [lev \in 1..Len(weatherData.levels) |->
        LevelRow(weatherData, dictionary, t, m, lev, lat, cell)]

\* "Save atmospheric data" and "Save maximum expected height" of
\* processForecastReanalysis
StoreGridded(self, all_rows) ==
    [StoreProfiles(self, ProfilesOf(CompressRows(all_rows))) EXCEPT
        !.maxExpectedHeight = Max(all_rows[1][2], Last(all_rows)[2])]

\* processForecastReanalysis once the checks passed, for time index t and
\* the cell of the launch site
ReadForecastReanalysis(self, weatherData, dictionary, t, cell) ==
    ReadSurfaceElevation(
        StoreGridded(self, GriddedRows(weatherData, dictionary, t, 0, self.latitude, cell)),
        weatherData, dictionary, t, cell)

\* the outcome of the checks of the gridded readers, "ok" when they pass
GriddedCheck(self, weatherData, dictionary) ==
    GriddedPrecheck(weatherData, dictionary, self.latitude, self.longitude,
                    self.datetime_date)

\* processForecastReanalysis(file, dictionary); weatherData is what
\* netCDF4.Dataset(file) gives
processForecastReanalysis(self, weatherData, dictionary) ==
    IF GriddedCheck(self, weatherData, dictionary) # "ok"
    THEN Raised(GriddedCheck(self, weatherData, dictionary), self)
    ELSE IF ~FieldsReadable(weatherData, dictionary) THEN Raised("ValueError", self)
    ELSE ReadForecastReanalysis(self, weatherData, dictionary,
            NearestTimeIndex(weatherData.timeArray, self.datetime_date) + 1,
            CellOf(weatherData, self.latitude, self.longitude))

(***************************************************************************)
(* Ensembles.                                                              *)
(***************************************************************************)
NoEnsemble ==
    [set |-> FALSE, numEnsembleMembers |-> 0, levelEnsemble |-> <<>>,
     heightEnsemble |-> <<>>, temperatureEnsemble |-> <<>>, windUEnsemble |-> <<>>,
     windVEnsemble |-> <<>>, windHeadingEnsemble |-> <<>>,
     windDirectionEnsemble |-> <<>>, windSpeedEnsemble |-> <<>>]

\* array[member, :] of numpy: a negative index counts from the end
MemberSlice(array, member) ==
    IF member < 0 THEN array[Len(array) + member + 1] ELSE array[member + 1]

\* data_array of selectEnsembleMember before the masked rows are dropped
MemberRows(ens, member) ==
    [k \in 1..Len(ens.levelEnsemble) |->
        <<ens.levelEnsemble[k],
          MemberSlice(ens.heightEnsemble, member)[k],
          MemberSlice(ens.temperatureEnsemble, member)[k],
          MemberSlice(ens.windUEnsemble, member)[k],
          MemberSlice(ens.windVEnsemble, member)[k],
          MemberSlice(ens.windHeadingEnsemble, member)[k],
          MemberSlice(ens.windDirectionEnsemble, member)[k],
          MemberSlice(ens.windSpeedEnsemble, member)[k]>>]

\* as StoreMember, but the maximum expected height never shrinks below the
\* one held before
StoreMemberOverHeight(self, member, all_rows) ==
    [StoreProfiles(self, ProfilesOf(CompressRows(all_rows))) EXCEPT
        !.maxExpectedHeight = Max(self.maxExpectedHeight,
                                  Max(all_rows[1][2], Last(all_rows)[2])),
        !.ensembleMember = member]

\* "Save atmospheric data", "Save maximum expected height" and "Save
\* current member" of selectEnsembleMember
StoreMember(self, member, all_rows) ==
    [StoreProfiles(self, ProfilesOf(CompressRows(all_rows))) EXCEPT
        !.maxExpectedHeight = Max(all_rows[1][2], Last(all_rows)[2]),
        !.ensembleMember = member]

\* selectEnsembleMember(member)
selectEnsembleMember(self, member) ==
    IF ~self.ensembleData.set THEN Raised("AttributeError", self)
    ELSE IF member >= self.ensembleData.numEnsembleMembers
    THEN Raised("ValueError", self)
    ELSE IF member < -Len(self.ensembleData.heightEnsemble)
    THEN Raised("IndexError", self)
    ELSE Returned(RecalculateDerived(
            StoreMember(self, member, MemberRows(self.ensembleData, member))))

\* column c of data_array for every member
EnsembleColumn(rows, c) ==
    [m \in 1..Len(rows) |-> [lev \in 1..Len(rows[m]) |-> rows[m][lev][c]]]

\* "Save ensemble data": rows[m] is data_array of member m - 1
SaveEnsemble(self, levels, rows) ==
    [self EXCEPT !.ensembleData =
        [set |-> TRUE,
         levelEnsemble |-> [lev \in 1..Len(levels) |-> 100 * levels[lev]],
         heightEnsemble |-> EnsembleColumn(rows, 2),
         temperatureEnsemble |-> EnsembleColumn(rows, 3),
         windUEnsemble |-> EnsembleColumn(rows, 4),
         windVEnsemble |-> EnsembleColumn(rows, 5),
         windHeadingEnsemble |-> EnsembleColumn(rows, 6),
         windDirectionEnsemble |-> EnsembleColumn(rows, 7),
         windSpeedEnsemble |-> EnsembleColumn(rows, 8),
         numEnsembleMembers |-> Len(rows)]]

\* the end of processEnsemble: activated is how self.selectEnsembleMember()
\* ended, the surface elevation is read when it returned
ThenReadSurfaceElevation(activated, weatherData, dictionary, t, cell) ==
    IF activated.outcome # "returned" THEN activated
    ELSE ReadSurfaceElevation(activated.self, weatherData, dictionary, t, cell)

\* as ReadEnsemble, but without the self.selectEnsembleMember() call
ReadEnsembleWithoutSelection(self, weatherData, dictionary, t, cell) ==
    ThenReadSurfaceElevation(
        Returned(SaveEnsemble(self, weatherData.levels,
            [m \in 1..weatherData.numMembers |->
                GriddedRows(weatherData, dictionary, t, m - 1, self.latitude, cell)])),
        weatherData, dictionary, t, cell)

\* processEnsemble once the checks passed, for time index t and the cell of
\* the launch site
ReadEnsemble(self, weatherData, dictionary, t, cell) ==
    ThenReadSurfaceElevation(
        selectEnsembleMember(
            SaveEnsemble(self, weatherData.levels,
                [m \in 1..weatherData.numMembers |->
                    GriddedRows(weatherData, dictionary, t, m - 1, self.latitude, cell)]),
            0),
        weatherData, dictionary, t, cell)

\* processEnsemble(file, dictionary)
processEnsemble(self, weatherData, dictionary) ==
    IF GriddedCheck(self, weatherData, dictionary) # "ok"
    THEN Raised(GriddedCheck(self, weatherData, dictionary), self)
    ELSE IF ~Readable(weatherData, dictionary.ensemble) THEN Raised("ValueError", self)
    ELSE IF ~FieldsReadable(weatherData, dictionary) THEN Raised("ValueError", self)
    ELSE ReadEnsemble(self, weatherData, dictionary,
            NearestTimeIndex(weatherData.timeArray, self.datetime_date) + 1,
            CellOf(weatherData, self.latitude, self.longitude))

(***************************************************************************)
(* Standard and custom atmosphere, soundings and Windy.                    *)
(***************************************************************************)
\* processStandardAtmosphere()
processStandardAtmosphere(self) ==
    Returned([self EXCEPT !.pressure = pressureISA,
                          !.temperature = temperatureISA,
                          !.windDirection = ConstProfile(0),
                          !.windHeading = ConstProfile(0),
                          !.windSpeed = ConstProfile(0),
                          !.windVelocityX = ConstProfile(0),
                          !.windVelocityY = ConstProfile(0),
                          !.maxExpectedHeight = StandardMaxHeight])

\* the arguments pressure, temperature, wind_u and wind_v: None, a number
\* or an array of (height, value) rows
ArgNone == [kind |-> "none"]
Scalar(v) == [kind |-> "scalar", v |-> v]
Array(pts) == [kind |-> "array", pts |-> pts]

\* "Check maximum height of custom ... input": source[-1, 0] of an array
CustomMaxHeight(source, maxHeight) ==
    IF source.kind = "array" THEN Max(Last(source.pts)[1], maxHeight) ELSE maxHeight

\* processCustomAtmosphere(pressure, temperature, wind_u, wind_v)
processCustomAtmosphere(self, pressureArg, temperatureArg, wind_u, wind_v) ==
    Returned([self EXCEPT
        !.pressure = IF pressureArg = ArgNone THEN pressureISA
                     ELSE Function(pressureArg),
        !.temperature = IF temperatureArg = ArgNone THEN temperatureISA
                        ELSE Function(temperatureArg),
        !.windVelocityX = Function(wind_u),
        !.windVelocityY = Function(wind_v),
        !.windHeading = SelfHeading,
        !.windDirection = SelfDirection,
        !.windSpeed = SelfSpeed,
        !.maxExpectedHeight =
            CustomMaxHeight(wind_v, CustomMaxHeight(wind_u,
                CustomMaxHeight(temperatureArg,
                    CustomMaxHeight(pressureArg, DefaultCustomHeight))))])

\* the rows of a sounding from the columns it reports
SoundingRows(raw) ==
    [k \in 1..Len(raw) |-> SoundingRow(raw[k][1], raw[k][2], raw[k][3], raw[k][4], raw[k][5])]

\* the data a sounding station or Windy answers with: pressure, height,
\* temperature, windU, windV per level
SoundingData(source) ==
    SoundingRows(
        CASE source = "wyoming" ->
                <<<<100000, 113, 29015, 3, 4>>, <<50000, 5700, 25815, 6, -8>>,
                  <<20000, 12100, 21915, 12, 5>>>>
          [] source = "ruc" ->
                <<<<95000, 450, 28515, -3, 0>>, <<40000, 7200, 24015, -5, 12>>,
                  <<15000, 13600, 21615, 0, 9>>>>
          [] OTHER ->
                <<<<100000, 95, 28915, 2, 2>>, <<50000, 5500, 25315, 8, 6>>,
                  <<15000, 13500, 21415, 20, 15>>>>)

\* "Save atmospheric data", the elevation and the maximum expected height
\* of a sounding
StoreSounding(self, data_array) ==
    [StoreProfiles(self, ProfilesOf(data_array)) EXCEPT
        !.elevation = data_array[1][2],
        !.maxExpectedHeight = Last(data_array)[2]]

\* processWyomingSounding(file): answer is how requests.get(file) ended
processWyomingSounding(self, answer) ==
    IF answer = "unreachable" THEN Raised("ImportError", self)
    ELSE IF answer = "no data" THEN Raised("ValueError", self)
    ELSE Returned(StoreSounding(self, SoundingData("wyoming")))

\* processNOAARUCSounding(file)
processNOAARUCSounding(self, answer) ==
    IF answer = "unreachable" THEN Raised("ImportError", self)
    ELSE IF answer = "no data" THEN Raised("ValueError", self)
    ELSE Returned(StoreSounding(self, SoundingData("ruc")))

\* "Save atmospheric data", the maximum expected height and the elevation
\* of the Windy answer
StoreWindy(self, data_array) ==
    [StoreProfiles(self, ProfilesOf(data_array)) EXCEPT
        !.maxExpectedHeight = Max(data_array[1][2], Last(data_array)[2]),
        !.elevation = data_array[1][2]]

\* processWindyAtmosphere(model)
processWindyAtmosphere(self, answer) ==
    IF answer # "ok" THEN Raised("ValueError", self)
    ELSE IF self.datetime_date = NoDate THEN Raised("TypeError", self)
    ELSE Returned(StoreWindy(self, SoundingData("windy")))

(***************************************************************************)
(* setAtmosphericModel, setLocation, setDate, addWindGust.                 *)
(***************************************************************************)
DocumentedTypes ==
    {"StandardAtmosphere", "CustomAtmosphere", "WyomingSounding", "NOAARucSounding",
     "Forecast", "Reanalysis", "Ensemble", "Windy"}
\* a reload on every type, the five types of fixed data included
ReloadOnEveryType ==
    {"StandardAtmosphere", "CustomAtmosphere", "WyomingSounding", "NOAARucSounding",
     "Windy", "Forecast", "Reanalysis", "Ensemble"}
\* the types for which setLocation and setDate call setAtmosphericModel
LocationSensitiveTypes == {"Forecast", "Reanalysis", "Ensemble"}

\* the three recalculations at the end of setAtmosphericModel, reached
\* only when the branch above them did not raise
FinishModel(result) ==
    IF result.outcome = "returned" THEN Returned(RecalculateDerived(result.self))
    ELSE result

\* "Save file"
SaveFile(result, fileArg) ==
    IF result.outcome = "returned"
    THEN Returned([result.self EXCEPT !.atmosphericModelFile = fileArg])
    ELSE result

\* "Save dictionary and file"
SaveFileAndDict(result, fileArg, dictionary) ==
    IF result.outcome = "returned"
    THEN Returned([result.self EXCEPT !.atmosphericModelFile = fileArg,
                                      !.atmosphericModelDict = dictionary])
    ELSE result

\* "Check if default dictionary was requested", Forecast and Reanalysis
ForecastDictionary(dictionary) ==
    CASE dictionary = DictECMWF -> ForecastEcmwfDict
      [] dictionary = DictNOAA -> ForecastNoaaDict
      [] OTHER -> dictionary

\* "Check if default dictionary was requested", Ensemble
EnsembleDictionary(dictionary) ==
    CASE dictionary = DictECMWF -> EnsembleEcmwfDict
      [] dictionary = DictNOAA -> EnsembleNoaaDict
      [] OTHER -> dictionary

\* processEnsemble with dictionary None: the date check and the opening of
\* the file come first, then dictionary["time"] raises
processEnsembleWithoutDictionary(self, weatherData) ==
    IF self.datetime_date = NoDate THEN Raised("TypeError", self)
    ELSE IF ~weatherData.ok THEN Raised("OSError", self)
    ELSE Raised("TypeError", self)

\* setAtmosphericModel(type, file, dictionary, pressure, temperature, wind_u,
\* wind_v) for every file but the named feeds (GFS, FV3, NAM, RAP, GEFS,
\* CMC), whose loop is modelled step by step below.  a.answer is how the
\* remote source of a sounding or of Windy answers.
setAtmosphericModel(self0, a) ==
    LET self == [self0 EXCEPT !.atmosphericModelType = a.type]
    IN CASE a.type = "StandardAtmosphere" ->
                FinishModel(processStandardAtmosphere(self))
         [] a.type = "WyomingSounding" ->
                FinishModel(SaveFile(processWyomingSounding(self, a.answer), a.file))
         [] a.type = "NOAARucSounding" ->
                FinishModel(SaveFile(processNOAARUCSounding(self, a.answer), a.file))
         [] a.type \in {"Forecast", "Reanalysis"} ->
                IF a.dictionary = DictNone THEN Raised("TypeError", self)
                ELSE LET dictionary == ForecastDictionary(a.dictionary)
                     IN FinishModel(SaveFileAndDict(
                            processForecastReanalysis(self, Dataset(a.file), dictionary),
                            a.file, dictionary))
         [] a.type = "Ensemble" ->
                IF a.dictionary = DictNone
                THEN processEnsembleWithoutDictionary(self, Dataset(a.file))
                ELSE LET dictionary == EnsembleDictionary(a.dictionary)
                     IN FinishModel(SaveFileAndDict(
                            processEnsemble(self, Dataset(a.file), dictionary),
                            a.file, dictionary))
         [] a.type = "CustomAtmosphere" ->
                FinishModel(processCustomAtmosphere(self, a.pressure, a.temperature,
                                                    a.wind_u, a.wind_v))
         [] a.type = "Windy" ->
                FinishModel(processWindyAtmosphere(self, a.answer))
         [] OTHER -> Raised("ValueError", self)

\* the arguments of a call setAtmosphericModel(type, file, dictionary) as
\* setLocation and setDate make it
ReloadArgs(self) ==
    [type |-> self.atmosphericModelFile, file |-> self.atmosphericModelDict,
     dictionary |-> DictNone, pressure |-> ArgNone, temperature |-> ArgNone,
     wind_u |-> Scalar(0), wind_v |-> Scalar(0), answer |-> "ok"]

\* "Update atmospheric conditions if atmosphere type is Forecast, Reanalysis
\* or Ensemble": reading an attribute never assigned raises AttributeError
UpdateAtmosphericConditions(self) ==
    IF self.atmosphericModelType \in LocationSensitiveTypes
    THEN IF self.atmosphericModelFile = NoAttr \/ self.atmosphericModelDict = NoDict
         THEN Raised("AttributeError", self)
         ELSE setAtmosphericModel(self, ReloadArgs(self))
    ELSE Returned(self)

\* setLocation(latitude, longitude)
setLocation(self, lat, lon) ==
    UpdateAtmosphericConditions([self EXCEPT !.latitude = lat, !.longitude = lon])

\* try: ... except AttributeError: pass
ExceptAttributeErrorPass(result) ==
    IF result.outcome = "AttributeError" THEN Returned(result.self) ELSE result

\* setDate(date, timeZone): as setLocation, inside try ... except AttributeError: pass
setDate(self, date) ==
    ExceptAttributeErrorPass(
        UpdateAtmosphericConditions([self EXCEPT !.datetime_date = date]))

\* a gust that adds to the components and keeps the heading and the speed
\* of the wind before it
addWindGustKeepingHeading(self, windGustX, windGustY) ==
    Returned([self EXCEPT !.windVelocityX = SumProfile(self.windVelocityX, windGustX),
                          !.windVelocityY = SumProfile(self.windVelocityY, windGustY)])

\* addWindGust(windGustX, windGustY) with two numbers
addWindGust(self, windGustX, windGustY) ==
    Returned([self EXCEPT !.windVelocityX = SumProfile(self.windVelocityX, windGustX),
                          !.windVelocityY = SumProfile(self.windVelocityY, windGustY),
                          !.windHeading = SelfHeading,
                          !.windSpeed = SelfSpeed])

NoMember == 0 - 1000                \* self.ensembleMember was never assigned

\* "for i in range(self.numEnsembleMembers): self.selectEnsembleMember(i)"
\* from member i on
RECURSIVE SelectEachMember(_, _)
SelectEachMember(self, i) ==
    IF i >= self.ensembleData.numEnsembleMembers THEN self
    ELSE SelectEachMember(selectEnsembleMember(self, i).self, i + 1)

\* the six loops of allPlotInfoReturned, one per ensemble plot
RECURSIVE SelectForEachPlot(_, _)
SelectForEachPlot(self, plots) ==
    IF plots = 0 THEN self
    ELSE SelectForEachPlot(SelectEachMember(self, 0), plots - 1)

\* allPlotInfoReturned(): the profiles are read over the grid; for an
\* Ensemble every member is selected in turn for each of the six ensemble
\* plots and "Clean up" selects the member that was active
allPlotInfoReturned(self) ==
    IF self.atmosphericModelType # "Ensemble" THEN Returned(self)
    ELSE IF self.ensembleMember = NoMember \/ ~self.ensembleData.set
    THEN Raised("AttributeError", self)
    ELSE selectEnsembleMember(SelectForEachPlot(self, 6), self.ensembleMember)

(***************************************************************************)
(* The state machine of one Environment.                                   *)
(***************************************************************************)

Self ==
    [atmosphericModelType |-> atmosphericModelType,
     atmosphericModelFile |-> atmosphericModelFile,
     atmosphericModelDict |-> atmosphericModelDict,
     latitude |-> latitude, longitude |-> longitude, datetime_date |-> datetime_date,
     pressure |-> pressure, temperature |-> temperature,
     windVelocityX |-> windVelocityX, windVelocityY |-> windVelocityY,
     windHeading |-> windHeading, windDirection |-> windDirection,
     windSpeed |-> windSpeed,
     density |-> density, speedOfSound |-> speedOfSound,
     dynamicViscosity |-> dynamicViscosity,
     maxExpectedHeight |-> maxExpectedHeight, elevation |-> elevation,
     ensembleData |-> ensembleData, ensembleMember |-> ensembleMember]

\* the attributes after a call are those the method left behind
Becomes(self) ==
    /\ atmosphericModelType' = self.atmosphericModelType
    /\ atmosphericModelFile' = self.atmosphericModelFile
    /\ atmosphericModelDict' = self.atmosphericModelDict
    /\ latitude' = self.latitude
    /\ longitude' = self.longitude
    /\ datetime_date' = self.datetime_date
    /\ pressure' = self.pressure
    /\ temperature' = self.temperature
    /\ windVelocityX' = self.windVelocityX
    /\ windVelocityY' = self.windVelocityY
    /\ windHeading' = self.windHeading
    /\ windDirection' = self.windDirection
    /\ windSpeed' = self.windSpeed
    /\ density' = self.density
    /\ speedOfSound' = self.speedOfSound
    /\ dynamicViscosity' = self.dynamicViscosity
    /\ maxExpectedHeight' = self.maxExpectedHeight
    /\ elevation' = self.elevation
    /\ ensembleData' = self.ensembleData
    /\ ensembleMember' = self.ensembleMember

\* the attributes are those of self
Is(self) ==
    /\ atmosphericModelType = self.atmosphericModelType
    /\ atmosphericModelFile = self.atmosphericModelFile
    /\ atmosphericModelDict = self.atmosphericModelDict
    /\ latitude = self.latitude
    /\ longitude = self.longitude
    /\ datetime_date = self.datetime_date
    /\ pressure = self.pressure
    /\ temperature = self.temperature
    /\ windVelocityX = self.windVelocityX
    /\ windVelocityY = self.windVelocityY
    /\ windHeading = self.windHeading
    /\ windDirection = self.windDirection
    /\ windSpeed = self.windSpeed
    /\ density = self.density
    /\ speedOfSound = self.speedOfSound
    /\ dynamicViscosity = self.dynamicViscosity
    /\ maxExpectedHeight = self.maxExpectedHeight
    /\ elevation = self.elevation
    /\ ensembleData = self.ensembleData
    /\ ensembleMember = self.ensembleMember


\* Environment(railLength, date, latitude, longitude): the attributes when
\* __init__ returns, with the default elevation 0
Environment(lat, lon, date) ==
    LET blank == [atmosphericModelType |-> NoAttr,
                  atmosphericModelFile |-> NoAttr,
                  atmosphericModelDict |-> NoDict,
                  latitude |-> lat, longitude |-> lon, datetime_date |-> date,
                  pressure |-> pressureISA, temperature |-> temperatureISA,
                  windVelocityX |-> ConstProfile(0), windVelocityY |-> ConstProfile(0),
                  windHeading |-> ConstProfile(0), windDirection |-> ConstProfile(0),
                  windSpeed |-> ConstProfile(0),
                  density |-> DensityOf(pressureISA, temperatureISA),
                  speedOfSound |-> SpeedOfSoundOf(temperatureISA),
                  dynamicViscosity |-> DynamicViscosityOf(temperatureISA),
                  maxExpectedHeight |-> 0, elevation |-> 0,
                  ensembleData |-> NoEnsemble, ensembleMember |-> NoMember]
        standard == [type |-> "StandardAtmosphere", file |-> None, dictionary |-> DictNone,
                     pressure |-> ArgNone, temperature |-> ArgNone,
                     wind_u |-> Scalar(0), wind_v |-> Scalar(0), answer |-> "ok"]
    IN setAtmosphericModel(blank, standard).self

\* the inputs explored
Sites == {<<2, 0>>, <<2, 3>>, <<9, 0>>}
Dates == {6, 20}
Members == (0 - NumMembers - 1)..NumMembers
Gusts == {<<4, 0 - 3>>}

DefaultArgs ==
    [type |-> "StandardAtmosphere", file |-> None, dictionary |-> DictNone,
     pressure |-> ArgNone, temperature |-> ArgNone,
     wind_u |-> Scalar(0), wind_v |-> Scalar(0), answer |-> "ok"]

Gridded(type, fileArg, dictionary) ==
    [DefaultArgs EXCEPT !.type = type, !.file = fileArg, !.dictionary = dictionary]

Custom(pressureArg, temperatureArg, wind_u) ==
    [DefaultArgs EXCEPT !.type = "CustomAtmosphere", !.pressure = pressureArg,
                        !.temperature = temperatureArg, !.wind_u = wind_u]

Remote(type, fileArg, answer) ==
    [DefaultArgs EXCEPT !.type = type, !.file = fileArg, !.answer = answer]

ModelArgs ==
    {DefaultArgs, [DefaultArgs EXCEPT !.type = "standardatmosphere"],
     Custom(Scalar(100000), Scalar(30000), Array(<<<<0, 2>>, <<4000, 6>>>>)),
     Custom(ArgNone, ArgNone, Scalar(5)),
     Custom(Array(<<<<0, 90000>>, <<6000, 45000>>>>), ArgNone, Scalar(5)),
     Remote("WyomingSounding", "wyoming.url", "ok"),
     Remote("WyomingSounding", "wyoming.url", "unreachable"),
     Remote("NOAARucSounding", "ruc.url", "ok"),
     Remote("NOAARucSounding", "ruc.url", "no data"),
     Remote("Windy", "ECMWF", "ok"),
     Remote("Windy", "ECMWF", "no data"),
     Gridded("Forecast", "fc.nc", DictNOAA),
     Gridded("Forecast", "nosfc.nc", DictNOAA),
     Gridded("Forecast", "gone.nc", DictNOAA),
     Gridded("Reanalysis", "era.nc", DictECMWF),
     Gridded("Reanalysis", "era.nc", DictNone),
     Gridded("Reanalysis", "fc.nc", DictECMWF),
     Gridded("Ensemble", "ens.nc", DictNOAA),
     Gridded("Ensemble", "fc.nc", DictNOAA),
     Gridded("Ensemble", "ens.nc", DictNone)}

\* the depth of the gust sums a wind profile is built from
RECURSIVE GustDepth(_)
GustDepth(p) == IF p.kind = "sum" THEN 1 + GustDepth(p.a) ELSE 0

Idle == pc = "idle"

\* a public call, how it ended and the member that was active before it
Call(op, result) ==
    /\ calls < MaxCalls
    /\ calls' = calls + 1
    /\ Becomes(result.self)
    /\ lastCall' = [op |-> op, outcome |-> result.outcome,
                      memberBefore |-> ensembleMember]
    /\ UNCHANGED <<loopVars, asideVars>>

SetAtmosphericModel ==
    /\ Idle
    /\ \E a \in ModelArgs :
          Call("setAtmosphericModel", setAtmosphericModel(Self, a))

SetLocation ==
    /\ Idle
    /\ \E site \in Sites :
          Call("setLocation", setLocation(Self, site[1], site[2]))

SetDate ==
    /\ Idle
    /\ \E date \in Dates :
          Call("setDate", setDate(Self, date))

SelectEnsembleMember ==
    /\ Idle
    /\ \E member \in Members :
          Call("selectEnsembleMember", selectEnsembleMember(Self, member))

AddWindGust ==
    /\ Idle
    /\ GustDepth(windVelocityX) < MaxGusts
    /\ \E gust \in Gusts :
          Call("addWindGust", addWindGust(Self, gust[1], gust[2]))

AllPlotInfoReturned ==
    /\ Idle
    /\ Call("allPlotInfoReturned", allPlotInfoReturned(Self))

NotApplied == [op |-> None]
NoTank == [kind |-> None]
NotConstructed == [variant |-> None, args |-> <<>>, outcome |-> None]
NotEvaluated == [property |-> None, outcome |-> None, value |-> <<>>]
NoRocket == [cpEccentricityX |-> None]
NoMotor == [positioned_tanks |-> None]

LoopIdle ==
    /\ pc = "idle" /\ feed = None /\ startTime = 0 /\ timeAttempt = 0
    /\ attemptCount = 0 /\ success = FALSE /\ file = None /\ attempts = <<>>
    /\ applied = NotApplied
    /\ tank = NoTank /\ construction = NotConstructed /\ evaluated = NotEvaluated
    /\ rocket = NoRocket /\ motor = NoMotor

Init ==
    /\ \E lat \in {2}, lon \in {0}, date \in {NoDate, 6} :
          Is(Environment(lat, lon, date))
    /\ lastCall = [op |-> "Environment", outcome |-> "returned", memberBefore |-> NoMember]
    /\ calls = 0
    /\ LoopIdle

Next ==
    \/ SetAtmosphericModel
    \/ SetLocation
    \/ SetDate
    \/ SelectEnsembleMember
    \/ AddWindGust
    \/ AllPlotInfoReturned

Spec == Init /\ [][Next]_vars

(***************************************************************************)
(* The named feeds of setAtmosphericModel: file "GFS", "FV3", "NAM", "RAP" *)
(* (Forecast) and "GEFS", "CMC" (Ensemble).  The loop that looks for the   *)
(* latest run is modelled one iteration per step.  Times are hours since   *)
(* 2023-01-01 00:00 UTC and stay within January.                           *)
(***************************************************************************)
Feeds == {"GFS", "FV3", "NAM", "RAP", "GEFS", "CMC"}

\* the type argument under which the feed is handled
FeedType(f) == IF f \in {"GEFS", "CMC"} THEN "Ensemble" ELSE "Forecast"

\* the hours in timedelta(hours=6 * attemptCount), 1 * and 12 *
Cadence(f) == CASE f = "RAP" -> 1 [] f = "CMC" -> 12 [] OTHER -> 6

\* the last argument of format: 6 * (timeAttempt.hour // 6), timeAttempt.hour
\* for RAP and 12 * (timeAttempt.hour // 12) for CMC
RunHour(f, hour) == IF f = "RAP" THEN hour ELSE Cadence(f) * (hour \div Cadence(f))

\* "{:02d}".format(n)
Pad2(n) == IF n < 10 THEN "0" \o ToString(n) ELSE ToString(n)

\* "{:04d}{:02d}{:02d}".format(year, month, day) of time t
DateStamp(t) == "202301" \o Pad2(t \div 24 + 1)

\* the URL the loop builds for time t
FeedURL(f, t) ==
    CASE f = "GFS" ->
            "https://nomads.ncep.noaa.gov/dods/gfs_0p25/gfs" \o DateStamp(t)
            \o "/gfs_0p25_" \o Pad2(RunHour(f, t % 24)) \o "z"
      [] f = "FV3" ->
            "https://nomads.ncep.noaa.gov/dods/gfs_0p25_parafv3/gfs" \o DateStamp(t)
            \o "/gfs_0p25_parafv3_" \o Pad2(RunHour(f, t % 24)) \o "z"
      [] f = "NAM" ->
            "https://nomads.ncep.noaa.gov/dods/nam/nam" \o DateStamp(t)
            \o "/nam_conusnest_" \o Pad2(RunHour(f, t % 24)) \o "z"
      [] f = "RAP" ->
            "https://nomads.ncep.noaa.gov/dods/rap/rap" \o DateStamp(t)
            \o "/rap_" \o Pad2(RunHour(f, t % 24)) \o "z"
      [] f = "GEFS" ->
            "https://nomads.ncep.noaa.gov/dods/gens_bc/gens" \o DateStamp(t)
            \o "/gep_all_" \o Pad2(RunHour(f, t % 24)) \o "z"
      [] OTHER ->
            "https://nomads.ncep.noaa.gov/dods/cmcens/cmcens" \o DateStamp(t)
            \o "/cmcens_all_" \o Pad2(RunHour(f, t % 24)) \o "z"

\* the dictionary the branch of the feed defines
FeedDictionary(f) ==
    IF FeedType(f) = "Ensemble" THEN EnsembleNoaaDict ELSE ForecastNoaaDict

\* the time the run behind FeedURL(f, t) starts at
RunTime(f, t) == 24 * (t \div 24) + RunHour(f, t % 24)

\* netCDF4.Dataset(FeedURL(f, t)): the run when the server has it, an
\* OSError when it has not
OpenFeed(f, t, answer) ==
    IF answer = "unavailable" THEN NoDataset
    ELSE GridDataset(NoaaVars \cup {"hgtsfc"}
                        \cup (IF FeedType(f) = "Ensemble" THEN {"ens"} ELSE {}),
                     <<0, 2, 4>>,
                     <<RunTime(f, t), RunTime(f, t) + 192, RunTime(f, t) + 384>>,
                     IF FeedType(f) = "Ensemble" THEN NumMembers ELSE 0,
                     4 * (RunTime(f, t) % 5), {})

\* self.processForecastReanalysis(file, dictionary) or
\* self.processEnsemble(file, dictionary) inside the try
IngestFeed(self, f, t, answer) ==
    IF FeedType(f) = "Ensemble"
    THEN processEnsemble(self, OpenFeed(f, t, answer), FeedDictionary(f))
    ELSE processForecastReanalysis(self, OpenFeed(f, t, answer), FeedDictionary(f))

\* the end of setAtmosphericModel as the caller sees it
Ends(outcome) ==
    /\ pc' = "done"
    /\ calls' = calls + 1
    /\ lastCall' = [lastCall EXCEPT !.outcome = outcome]

\* setAtmosphericModel(type, file) is called with the name of a feed: the
\* type is recorded and the loop is set up
BeginFeed ==
    /\ pc = "idle"
    /\ \E f \in Feeds, now \in {589, 605} :
          /\ feed' = f
          /\ Becomes([Self EXCEPT !.atmosphericModelType = FeedType(f)])
          /\ startTime' = now
          /\ timeAttempt' = now
          /\ file' = f
    /\ success' = FALSE
    /\ attemptCount' = 0
    /\ attempts' = <<>>
    /\ pc' = "loop"
    /\ lastCall' = [op |-> "setAtmosphericModel", outcome |-> "running",
                    memberBefore |-> ensembleMember]
    /\ UNCHANGED <<calls, asideVars>>

\* as AttemptEnds, but with "except Exception" in place of "except OSError"
AttemptEndsCatchingAll(t, result) ==
    /\ timeAttempt' = t
    /\ file' = FeedURL(feed, t)
    /\ attempts' = Append(attempts, [timeAttempt |-> t, file |-> FeedURL(feed, t),
                                     outcome |-> result.outcome])
    /\ Becomes(result.self)
    /\ IF result.outcome = "returned"
       THEN success' = TRUE /\ UNCHANGED attemptCount
       ELSE attemptCount' = attemptCount + 1 /\ UNCHANGED success
    /\ UNCHANGED <<pc, calls, lastCall, feed, startTime, asideVars>>

\* as AttemptEnds, but without the except clause: every error of the try
\* leaves setAtmosphericModel
AttemptEndsOnAnyError(t, result) ==
    /\ timeAttempt' = t
    /\ file' = FeedURL(feed, t)
    /\ attempts' = Append(attempts, [timeAttempt |-> t, file |-> FeedURL(feed, t),
                                     outcome |-> result.outcome])
    /\ Becomes(result.self)
    /\ IF result.outcome = "returned"
       THEN success' = TRUE /\ UNCHANGED <<attemptCount, pc, calls, lastCall>>
       ELSE Ends(result.outcome) /\ UNCHANGED <<success, attemptCount>>
    /\ UNCHANGED <<feed, startTime, asideVars>>

\* the body of the loop once timeAttempt is t and the try ended as result:
\* success on return, one more attempt on OSError, any other error leaves
\* setAtmosphericModel
AttemptEnds(t, result) ==
    /\ timeAttempt' = t
    /\ file' = FeedURL(feed, t)
    /\ attempts' = Append(attempts, [timeAttempt |-> t, file |-> FeedURL(feed, t),
                                     outcome |-> result.outcome])
    /\ Becomes(result.self)
    /\ CASE result.outcome = "returned" ->
                /\ success' = TRUE
                /\ UNCHANGED <<attemptCount, pc, calls, lastCall>>
         [] result.outcome = "OSError" ->
                /\ attemptCount' = attemptCount + 1
                /\ UNCHANGED <<success, pc, calls, lastCall>>
         [] OTHER ->
                /\ Ends(result.outcome)
                /\ UNCHANGED <<success, attemptCount>>
    /\ UNCHANGED <<feed, startTime, asideVars>>

\* one iteration of "while not success and attemptCount < 10"
Attempt ==
    /\ pc = "loop"
    /\ ~success /\ attemptCount < MaxAttempts
    /\ \E answer \in {"unavailable", "available"} :
          AttemptEnds(timeAttempt - Cadence(feed) * attemptCount,
                      IngestFeed(Self, feed,
                                 timeAttempt - Cadence(feed) * attemptCount, answer))

\* the loop is left without success: "if not success: raise RuntimeError"
Exhausted ==
    /\ pc = "loop"
    /\ ~success /\ attemptCount >= MaxAttempts
    /\ pc' = "done"
    /\ calls' = calls + 1
    /\ lastCall' = [op |-> "setAtmosphericModel", outcome |-> "RuntimeError",
                    memberBefore |-> lastCall.memberBefore,
                    message |-> "Unable to load latest weather data for " \o feed
                                \o " through " \o file]
    /\ UNCHANGED <<envVars, feed, startTime, timeAttempt, attemptCount, success,
                   file, attempts, asideVars>>

\* the loop is left with success: "Save dictionary and file" and the three
\* recalculations
Finish ==
    /\ pc = "loop"
    /\ success
    /\ Becomes(FinishModel(SaveFileAndDict(Returned(Self), file,
                                           FeedDictionary(feed))).self)
    /\ Ends("returned")
    /\ UNCHANGED <<feed, startTime, timeAttempt, attemptCount, success, file,
                   attempts, asideVars>>

\* an Environment on which a feed is requested: without a date, with a date
\* the recent runs cover, with a date no run covers; at a site inside the
\* grid of the runs or outside it
RetryInit ==
    /\ \E date \in {NoDate, 620, 2000}, lat \in {2, 9} : Is(Environment(lat, 3, date))
    /\ lastCall = [op |-> "Environment", outcome |-> "returned", memberBefore |-> NoMember]
    /\ calls = 0
    /\ LoopIdle

RetryNext ==
    \/ BeginFeed
    \/ Attempt
    \/ Exhausted
    \/ Finish

\* setAtmosphericModel runs on one thread: a call that can take a step does
RetrySpec == RetryInit /\ [][RetryNext]_vars /\ WF_vars(RetryNext)

(***************************************************************************)
(* Properties of the Environment, checked under Spec.                      *)
(***************************************************************************)
\* a public call has just been made (a step of Spec that is a call)
Called(op) == calls' = calls + 1 /\ lastCall'.op = op

\* C1: in every reachable state, whether the calls before it returned or
\* raised, density is pressure / (R_air * temperature) of the active
\* pressure and temperature profiles, and speedOfSound and dynamicViscosity
\* are the ones computed from the active temperature profile.
C1_DerivedNeverStale ==
    /\ density = DensityOf(pressure, temperature)
    /\ speedOfSound = SpeedOfSoundOf(temperature)
    /\ dynamicViscosity = DynamicViscosityOf(temperature)

\* C2: in every reachable state the recorded model type is one of the eight
\* documented types.
C2_TypeIsDocumented == atmosphericModelType \in DocumentedTypes

\* C3: a setAtmosphericModel call that fails leaves the model type, the
\* recorded file and dictionary, the profiles, the derived profiles,
\* maxExpectedHeight and elevation exactly as they were before the call.
C3_AtomicOnFailure ==
    [][(Called("setAtmosphericModel") /\ lastCall'.outcome # "returned")
        => UNCHANGED <<metaVars, sourceVars, derivedVars, maxExpectedHeight,
                       elevation>>]_vars

\* the call setAtmosphericModel(type, file, dictionary) that re-runs the
\* ingestion of the active model at the site and date of self
Reingested(self) ==
    setAtmosphericModel(self, Gridded(self.atmosphericModelType,
                                      self.atmosphericModelFile,
                                      self.atmosphericModelDict))

\* the Environment is as the call result left it, and the call ended as
\* result did
LeftAs(result) ==
    /\ lastCall'.outcome = result.outcome
    /\ Self' = result.self

\* C4: with a location-sensitive model active and its file and dictionary
\* recorded, setLocation and setDate end as the ingestion of that type,
\* file and dictionary at the new site or date ends, and leave the model
\* type recorded as it was.
C4_SensitiveTypesReingest ==
    [][(/\ atmosphericModelType \in LocationSensitiveTypes
        /\ atmosphericModelFile # NoAttr /\ atmosphericModelDict # NoDict
        /\ (Called("setLocation") \/ Called("setDate")))
        => /\ atmosphericModelType' = atmosphericModelType
           /\ LeftAs(Reingested([Self EXCEPT !.latitude = latitude',
                                             !.longitude = longitude',
                                             !.datetime_date = datetime_date']))]_vars

\* the types for which setLocation and setDate only store their argument
MetadataOnlyTypes ==
    {"StandardAtmosphere", "CustomAtmosphere", "WyomingSounding", "NOAARucSounding",
     "Windy"}

\* C5: with StandardAtmosphere, CustomAtmosphere, WyomingSounding,
\* NOAARucSounding or Windy active, setLocation and setDate return and
\* change nothing but the stored latitude, longitude and date.
C5_OnlyMetadataChanges ==
    [][(/\ atmosphericModelType \in MetadataOnlyTypes
        /\ (Called("setLocation") \/ Called("setDate")))
        => /\ lastCall'.outcome = "returned"
           /\ UNCHANGED <<metaVars, sourceVars, derivedVars, maxExpectedHeight,
                          elevation, ensVars>>]_vars

\* a state in which setLocation moved the site of a Windy model
C5_Witness ==
    /\ lastCall.op = "setLocation" /\ lastCall.outcome = "returned"
    /\ atmosphericModelType = "Windy"
    /\ latitude = 9

\* C8: selectEnsembleMember returns only for 0 <= index < numEnsembleMembers;
\* for any other index it raises the domain error (ValueError) and leaves
\* the active member and the active profiles as they were.
C8_OnlyValidIndexSucceeds ==
    [][Called("selectEnsembleMember") /\ ensembleData.set
        => \/ /\ lastCall'.outcome = "returned"
              /\ ensembleMember' \in 0..(ensembleData.numEnsembleMembers - 1)
           \/ /\ lastCall'.outcome = "ValueError"
              /\ UNCHANGED <<ensembleMember, sourceVars, derivedVars,
                             maxExpectedHeight>>]_vars

\* the Environment right after processEnsemble read file "ens.nc" at a site
\* and date
Ingested(site, date) ==
    processEnsemble(Environment(site[1], site[2], date), Dataset("ens.nc"),
                    EnsembleNoaaDict)

\* the profiles and the maximum expected height of an Environment record
ActiveSet(self) ==
    <<self.pressure, self.temperature, self.windVelocityX, self.windVelocityY,
      self.windHeading, self.windDirection, self.windSpeed, self.density,
      self.speedOfSound, self.dynamicViscosity, self.maxExpectedHeight>>

\* the raw data is as some ingestion left it, and the active set is the one
\* that selecting the active member right after that ingestion gives
AsSelectedAfterIngestion ==
    \E site \in Sites \cup {<<2, 0>>}, date \in Dates :
        /\ Ingested(site, date).outcome = "returned"
        /\ ensembleData = Ingested(site, date).self.ensembleData
        /\ ActiveSet(Self) =
             ActiveSet(selectEnsembleMember(Ingested(site, date).self,
                                            ensembleMember).self)

\* C9: after a selectEnsembleMember call that returned, whatever the calls
\* before it, the raw ensemble arrays and the member count are as ingested
\* and the active profiles and maxExpectedHeight are those of selecting
\* that member directly after ingestion; the call leaves the raw data
\* untouched, and selecting the active member again changes no profile.
C9_SelectionDependsOnlyOnRawData ==
    /\ [](lastCall.op = "selectEnsembleMember" /\ lastCall.outcome = "returned"
            => AsSelectedAfterIngestion)
    /\ [][Called("selectEnsembleMember")
            => /\ ensembleData' = ensembleData
               /\ (lastCall.op = "selectEnsembleMember"
                   /\ lastCall.outcome = "returned"
                   /\ lastCall'.outcome = "returned"
                   /\ ensembleMember' = ensembleMember)
                  => ActiveSet(Self') = ActiveSet(Self)]_vars

\* a state in which member 1 was selected and then member 0 again
C9_Witness ==
    /\ lastCall = [op |-> "selectEnsembleMember", outcome |-> "returned",
                   memberBefore |-> 1]
    /\ ensembleMember = 0

\* the profiles of member 0 of the stored raw data
MemberZeroProfiles ==
    ProfilesOf(CompressRows(MemberRows(ensembleData, 0)))

\* C10: after every setAtmosphericModel call that ingested an Ensemble, the
\* active member is 0 and the active profiles are those of member 0.
C10_IngestionActivatesMemberZero ==
    (/\ lastCall.op = "setAtmosphericModel" /\ lastCall.outcome = "returned"
     /\ atmosphericModelType = "Ensemble")
    => /\ ensembleMember = 0
       /\ Self = StoreProfiles(Self, MemberZeroProfiles)

\* a state in which the Ensemble was ingested again while member 1 was
\* the active one
C10_Witness ==
    /\ lastCall = [op |-> "setAtmosphericModel", outcome |-> "returned",
                   memberBefore |-> 1]
    /\ atmosphericModelType = "Ensemble"

(***************************************************************************)
(* Properties of the named-feed loop, checked under RetrySpec.             *)
(***************************************************************************)
\* the call for a feed has ended
Done == pc = "done"

\* every attempt made failed with the transient error of the source
AllTransient == \A k \in 1..Len(attempts) : attempts[k].outcome = "OSError"

\* the call ended with the fatal RuntimeError that names the last URL tried
FatalNamingLastURL ==
    /\ lastCall.outcome = "RuntimeError"
    /\ lastCall.message = "Unable to load latest weather data for " \o feed
                          \o " through " \o Last(attempts).file

\* C6 as stated: a call for a named feed ends either with one attempt that
\* succeeded or with all 10 attempts failed on a transient source error and
\* the fatal error naming the last URL.
C6_SucceededOrExhausted ==
    Done => \/ success
            \/ Len(attempts) = MaxAttempts /\ AllTransient /\ FatalNamingLastURL

\* C6: the attempts of a named feed are made one at a time, none follows a
\* successful one, at most 10 are made, and the call always ends: with the
\* success of its last attempt, or with the error of its last attempt when
\* that is not the transient source error (no attempt follows it), or after
\* 10 transient failures with the fatal error naming the last URL.
C6_RetryLoopEnds ==
    /\ [](Len(attempts) <= MaxAttempts)
    /\ [](\A k \in 1..(Len(attempts) - 1) : attempts[k].outcome = "OSError")
    /\ [][attempts' # attempts
            => ~success /\ Len(attempts') = Len(attempts) + 1]_vars
    /\ [](Done =>
            \/ /\ success /\ lastCall.outcome = "returned"
               /\ Last(attempts).outcome = "returned"
            \/ /\ ~success /\ Len(attempts) >= 1
               /\ Last(attempts).outcome \notin {"returned", "OSError"}
               /\ lastCall.outcome = Last(attempts).outcome
            \/ /\ ~success /\ Len(attempts) = MaxAttempts /\ AllTransient
               /\ FatalNamingLastURL)
    /\ (pc = "loop" ~> Done)

\* the call ended after 10 transient failures
C6_Witness ==
    Done /\ Len(attempts) = MaxAttempts /\ lastCall.outcome = "RuntimeError"

\* C27: inside the retry loop only the transient source error (the remote
\* dataset cannot be opened) consumes an attempt and is followed by a retry,
\* against an older timestamp; an attempt that ended with another error (the
\* launch time or the location outside the opened dataset, a date that was
\* never set) ends the call with that error, consumes no attempt and is
\* followed by no further attempt.  With a date set, an attempt ends with
\* the transient error when the dataset cannot be opened, and never when
\* it was opened.
C27_OnlyTransientErrorsRetry ==
    /\ [][attempts' # attempts =>
            /\ Last(attempts').outcome = "OSError" =>
                   /\ attemptCount' = attemptCount + 1
                   /\ pc' = "loop" /\ lastCall'.outcome = "running"
            /\ Last(attempts').outcome \notin {"OSError", "returned"} =>
                   /\ attemptCount' = attemptCount
                   /\ pc' = "done" /\ lastCall'.outcome = Last(attempts').outcome]_vars
    /\ [](pc = "loop" /\ ~success /\ attemptCount < MaxAttempts =>
            /\ datetime_date # NoDate =>
                   IngestFeed(Self, feed, timeAttempt - Cadence(feed) * attemptCount,
                              "unavailable").outcome = "OSError"
            /\ IngestFeed(Self, feed, timeAttempt - Cadence(feed) * attemptCount,
                          "available").outcome # "OSError")
    /\ [](\A k \in 1..(Len(attempts) - 1) :
            /\ attempts[k].outcome = "OSError"
            /\ k >= 2 => attempts[k].timeAttempt < attempts[k - 1].timeAttempt)
    /\ [](Done => attemptCount = Cardinality({k \in 1..Len(attempts) :
                                                attempts[k].outcome = "OSError"}))

\* a first attempt could not open the dataset, the second opened an older
\* run that does not cover the launch time: the call ended with that error
\* after one consumed attempt
C27_Witness ==
    /\ Done /\ Len(attempts) = 2 /\ attemptCount = 1
    /\ attempts[1].outcome = "OSError" /\ attempts[2].outcome = "ValueError"
    /\ attempts[2].timeAttempt < attempts[1].timeAttempt
    /\ lastCall.outcome = "ValueError"

\* C7: the k-th attempt (k = 0..9) targets the start time minus k cadence
\* intervals of the feed.
C7_OneCadencePerAttempt ==
    \A k \in 1..Len(attempts) :
        attempts[k].timeAttempt = startTime - Cadence(feed) * (k - 1)

(***************************************************************************)
(* Properties of the wind profiles, checked under Spec.                    *)
(***************************************************************************)
\* what the wind profiles of an Environment give at height h
WindAt(self, h) ==
    [x |-> Eval(self.windVelocityX, h, self.windVelocityX, self.windVelocityY),
     y |-> Eval(self.windVelocityY, h, self.windVelocityX, self.windVelocityY),
     speed |-> Eval(self.windSpeed, h, self.windVelocityX, self.windVelocityY),
     heading |-> Eval(self.windHeading, h, self.windVelocityX, self.windVelocityY)]
DirectionAt(self, h) ==
    Eval(self.windDirection, h, self.windVelocityX, self.windVelocityY)

\* C11: in every state left by a call that returned (model selection,
\* member selection, wind gust), at every sampled height the wind
\* direction is (wind heading - 180) mod 360.
C11_DirectionFollowsHeading ==
    lastCall.outcome = "returned" =>
        \A h \in SampleHeights :
            DirectionAt(Self, h) = (WindAt(Self, h).heading - 180) % 360

\* gusts applied one after another, and in one call
SecondGusts == Gusts \cup {<<0 - 1, 2>>, <<3, 3>>}
TwoGusts(self, g1, g2) == addWindGust(addWindGust(self, g1[1], g1[2]).self, g2[1], g2[2]).self
OneGust(self, g1, g2) == addWindGust(self, g1[1] + g2[1], g1[2] + g2[2]).self

\* speed and heading of the components u and v
WindOf(u, v) ==
    [x |-> u, y |-> v, speed |-> ISqrt(u * u + v * v), heading |-> Atan2Deg(u, v)]

\* the wind after a gust is the wind before it plus the gust, and speed and
\* heading are those of the new components
GustAdded(before, after, gust) ==
    \A h \in SampleHeights :
        WindAt(after, h) = WindOf(Eval(before.windVelocityX, h, before.windVelocityX, before.windVelocityY) + gust[1],
                                  Eval(before.windVelocityY, h, before.windVelocityX, before.windVelocityY) + gust[2])

\* C12: every addWindGust(gx, gy) call leaves windVelocityX = previous
\* windVelocityX + gx and windVelocityY = previous windVelocityY + gy, with
\* windSpeed and windHeading computed from the new components; and from
\* every reachable state, two gusts in sequence give the same components,
\* speed and heading as one gust that is their sum.
C12_GustAddsToWind ==
    /\ [][Called("addWindGust") =>
             \E gust \in Gusts : GustAdded(Self, Self', gust)]_vars
    /\ [](\A g1 \in Gusts, g2 \in SecondGusts, h \in SampleHeights :
             WindAt(TwoGusts(Self, g1, g2), h) = WindAt(OneGust(Self, g1, g2), h))

\* the pressure, temperature and wind an Environment record gives at the
\* sample heights
ObservedAt(self, h) ==
    [pressure |-> Eval(self.pressure, h, self.windVelocityX, self.windVelocityY),
     temperature |-> Eval(self.temperature, h, self.windVelocityX, self.windVelocityY),
     wind |-> WindAt(self, h), windDirection |-> DirectionAt(self, h)]

\* C28: after allPlotInfoReturned returns, the active ensemble member, the
\* active pressure, temperature and wind profiles (with any gust added
\* before) and maxExpectedHeight are the same as before the call, for
\* every model type.
C28_PlotInfoReadOnly ==
    [][Called("allPlotInfoReturned") /\ lastCall'.outcome = "returned" =>
          /\ ensembleMember' = ensembleMember
          /\ maxExpectedHeight' = maxExpectedHeight
          /\ \A h \in SampleHeights : ObservedAt(Self', h) = ObservedAt(Self, h)]_vars

\* what the code does: nothing changes for a model type other than
\* Ensemble, and for an Ensemble the state left is that of selecting the
\* active member again, the profiles of that member without any gust
C28_PlotInfoReselectsMember ==
    [][Called("allPlotInfoReturned") /\ lastCall'.outcome = "returned" =>
          IF atmosphericModelType # "Ensemble" THEN Self' = Self
          ELSE /\ ensembleMember' = ensembleMember
               /\ Self' = selectEnsembleMember(Self, ensembleMember).self]_vars

\* C29: while the recorded model type is not Ensemble, before and after the
\* call, a selectEnsembleMember call leaves the active pressure,
\* temperature and wind profiles as they were: it does not replace them
\* with data of an ensemble ingested earlier.
C29_ProfilesBelongToModelType ==
    [][(/\ Called("selectEnsembleMember")
        /\ atmosphericModelType # "Ensemble"
        /\ atmosphericModelType' # "Ensemble")
            => sourceVars' = sourceVars]_vars

\* a gust was added over the wind table of a sounding
C12_Witness ==
    /\ lastCall.op = "addWindGust" /\ lastCall.outcome = "returned"
    /\ windVelocityX.kind = "sum" /\ windVelocityX.a.kind = "table"
    /\ windHeading = SelfHeading

(***************************************************************************)
(* The sub-algorithms of ingestion applied on their own: each action       *)
(* applies one of them to inputs drawn from a bounded set and records the  *)
(* inputs and what it gave in applied.                                     *)
(***************************************************************************)
MaxAxisLen == 3        \* entries of a grid axis
MaxCoord == 4          \* largest coordinate of a grid axis

Coords == 0..MaxCoord
Queries == (0 - 1)..(MaxCoord + 1)

StrictlyAscending(a) == \A k \in 1..(Len(a) - 1) : a[k] < a[k + 1]
StrictlyDescending(a) == \A k \in 1..(Len(a) - 1) : a[k] > a[k + 1]

\* the strictly monotonic axes of 2..MaxAxisLen entries
Axes ==
    UNION {{a \in [1..n -> Coords] : StrictlyAscending(a) \/ StrictlyDescending(a)} :
              n \in 2..MaxAxisLen}

\* longitude axes: 0 to 360, -180 to 180, and both reversed
LonAxes == {<<0, 90, 180, 270>>, <<0 - 180, 0 - 90, 0, 90>>,
            <<90, 0, 0 - 90>>, <<350, 180, 10>>}
\* "Longitude in degrees (ranging from -180 to 360)"
Longitudes == (0 - 180)..360

TimeAxes == {<<0, 6, 12>>, <<6>>, <<3, 6, 18, 24>>}
Times == (0 - 2)..26

GridFiles == {"fc.nc", "era.nc", "ens.nc"}
FileDictionary(f) ==
    CASE f = "fc.nc" -> ForecastNoaaDict
      [] f = "era.nc" -> ForecastEcmwfDict
      [] OTHER -> EnsembleNoaaDict
\* the four per-level fields: height, temperature, windU, windV
FieldNames(dictionary) ==
    <<"height", dictionary.temperature, dictionary.u_wind, dictionary.v_wind>>

\* geometric heights whose geopotential height is at, next to or between
\* the layer bases, and beyond both ends of the table
IsaHeights ==
    {GeopotentialToGeometric(isa_geopotential_height[k] + d) :
        k \in 1..Len(isa_geopotential_height), d \in {0 - 500, 0 - 1, 0, 1, 500}}

\* setEarthGeometry(datum): the ellipsoid of the datum, its flattening as
\* written in the table, or the error raised for a name not in the table
NoEllipsoid == [semiMajorAxis |-> 0, flattening |-> None]
geodesy(semiMajorAxis, flattening) ==
    [semiMajorAxis |-> semiMajorAxis, flattening |-> flattening]
ellipsoid ==
    [datum \in {"SIRGAS2000", "SAD69", "NAD83", "WGS84"} |->
        CASE datum = "SIRGAS2000" -> geodesy(6378137, "1 / 298.257223563")
          [] datum = "SAD69" -> geodesy(6378160, "1 / 298.25")
          [] datum = "NAD83" -> geodesy(6378137, "1 / 298.257024899")
          [] OTHER -> geodesy(6378137, "1 / 298.257223563")]
setEarthGeometry(datum) ==
    IF datum \in DOMAIN ellipsoid
    THEN [outcome |-> "returned", ellipsoid |-> ellipsoid[datum]]
    ELSE [outcome |-> "AttributeError", ellipsoid |-> NoEllipsoid]

\* the datum names given to the constructor: the four of the table, two
\* typing mistakes and another reference system
Datums == {"SIRGAS2000", "SAD69", "NAD83", "WGS84", "SIRGAS200", "wgs84", "ETRS89"}

\* "Calculate the central meridian of UTM zone"
CentralMeridian(lon) ==
    IF lon # 0
    THEN LET signal == lon \div Abs(lon)
         IN  IF signal > 0
             THEN (((lon - 3) * signal) \div 6) * 6 + 3
             ELSE ((((lon + 3) * signal) \div 6) * 6 + 3) * signal
    ELSE 3
EastOrWest(lon) == IF lon > 0 THEN "E" ELSE IF lon < 0 THEN "W" ELSE "W|E"
\* "Calculate the UTM zone number"
UtmZone(lon_mc) == (lon_mc + 183) \div 6
\* utmToGeodesic: "Calculate the Central Meridian from the UTM zone number"
centralMeridian(utmZone) == utmZone * 6 - 183

\* nothing was applied yet: one application is made on the inputs chosen
Unapplied == applied = NotApplied

Applies(record) ==
    applied' = record /\ UNCHANGED <<envVars, lastCall, calls, loopVars, tankVars, vehicleVars>>

\* "Find longitude index" / "Find latitude index" and the check after it
LocateOnAxis ==
    /\ Unapplied
    /\ \E arr \in Axes, x \in Queries :
           Applies([op |-> "LocateIndex", arr |-> arr, x |-> x,
                    index |-> LocateIndex(arr, x),
                    raised |-> OutsideGrid(arr, LocateIndex(arr, x))])

\* "Determine if file uses -180 to 180 or 0 to 360"
ConvertLongitude ==
    /\ Unapplied
    /\ \E lonArray \in LonAxes, longitude_ \in Longitudes :
           Applies([op |-> "NormalizeLongitude", lonArray |-> lonArray,
                    longitude |-> longitude_,
                    lon |-> NormalizeLongitude(lonArray, longitude_)])

\* "Find time index", the range check and the warning
SelectTime ==
    /\ Unapplied
    /\ \E timeArray \in TimeAxes, t \in Times :
           Applies([op |-> "date2index", timeArray |-> timeArray, t |-> t,
                    timeIndex |-> NearestTimeIndex(timeArray, t),
                    raised |-> TimeOutsideFile(timeArray, t),
                    warned |-> ~TimeOutsideFile(timeArray, t)
                               /\ TimeNotExact(timeArray, t)])

\* the interpolation of the four fields of one level to a launch site
\* inside the grid of a file
InterpolateFields ==
    /\ Unapplied
    /\ \E f \in GridFiles, lat \in Queries, longitude_ \in Queries \cup {362, 364},
          t \in 1..3, lev \in 1..3, m \in 0..(NumMembers - 1) :
           /\ m < Max(Dataset(f).numMembers, 1)
           /\ ~OutsideGrid(Dataset(f).latArray, CellOf(Dataset(f), lat, longitude_).latIndex)
           /\ ~OutsideGrid(Dataset(f).lonArray, CellOf(Dataset(f), lat, longitude_).lonIndex)
           /\ Applies([op |-> "FieldAtSite", file |-> f, lat |-> lat, t |-> t,
                       lev |-> lev, m |-> m,
                       cell |-> CellOf(Dataset(f), lat, longitude_),
                       fields |-> [k \in 1..4 |->
                           FieldAtSite(Dataset(f), FileDictionary(f),
                                       FieldNames(FileDictionary(f))[k], t, m, lev, lat,
                                       CellOf(Dataset(f), lat, longitude_))]])

\* pressure_function(h) of the standard atmosphere
StandardPressure ==
    /\ Unapplied
    /\ \E h \in IsaHeights :
           Applies([op |-> "pressure_function", h |-> h,
                    H |-> GeometricToGeopotential(h),
                    layer |-> IsaLayer(GeometricToGeopotential(h)),
                    P |-> pressure_function(h)])

\* Environment(..., datum=datum): the ellipsoid the constructor stores, or
\* the error it ends with
ConstructWithDatum ==
    /\ Unapplied
    /\ \E datum \in Datums :
           Applies([op |-> "Environment", datum |-> datum,
                    outcome |-> setEarthGeometry(datum).outcome,
                    ellipsoid |-> setEarthGeometry(datum).ellipsoid])

\* geodesicToUtm(lat, lon): the zone of a whole longitude
GeodesicToUtm ==
    /\ Unapplied
    /\ \E lon \in (0 - 180)..180 :
           Applies([op |-> "geodesicToUtm", lon |-> lon,
                    lon_mc |-> CentralMeridian(lon), EW |-> EastOrWest(lon),
                    utmZone |-> UtmZone(CentralMeridian(lon))])

ApplyInit ==
    /\ Is(Environment(2, 0, NoDate))
    /\ lastCall = [op |-> "Environment", outcome |-> "returned", memberBefore |-> NoMember]
    /\ calls = 0
    /\ LoopIdle

ApplyNext ==
    \/ LocateOnAxis
    \/ ConvertLongitude
    \/ SelectTime
    \/ InterpolateFields
    \/ StandardPressure
    \/ ConstructWithDatum
    \/ GeodesicToUtm

ApplySpec == ApplyInit /\ [][ApplyNext]_vars

(***************************************************************************)
(* Properties of the sub-algorithms, checked under ApplySpec.              *)
(***************************************************************************)
Smallest(arr) == CHOOSE v \in {arr[k] : k \in 1..Len(arr)} :
                    \A k \in 1..Len(arr) : v <= arr[k]
Largest(arr) == CHOOSE v \in {arr[k] : k \in 1..Len(arr)} :
                    \A k \in 1..Len(arr) : v >= arr[k]
Between(a, x, b) == (a <= x /\ x <= b) \/ (b <= x /\ x <= a)

\* C13: on a strictly monotonic axis, ascending or descending, a query
\* inside [min, max] gives an index i with 1 <= i <= length - 1 whose
\* neighbours grid[i-1] and grid[i] enclose the query (length - 1 when the
\* query is the last grid value), and a query outside [min, max] fails.
C13_IndexEnclosesQuery ==
    applied.op = "LocateIndex" =>
        IF Smallest(applied.arr) <= applied.x /\ applied.x <= Largest(applied.arr)
        THEN /\ ~applied.raised
             /\ 1 <= applied.index /\ applied.index <= Len(applied.arr) - 1
             /\ Between(At(applied.arr, applied.index - 1), applied.x,
                        At(applied.arr, applied.index))
             /\ applied.x = Last(applied.arr) => applied.index = Len(applied.arr) - 1
        ELSE applied.raised

\* the query is the last value of a descending axis
C13_Witness ==
    /\ applied.op = "LocateIndex" /\ StrictlyDescending(applied.arr)
    /\ applied.x = Last(applied.arr) /\ Len(applied.arr) = 3
    /\ applied.index = 2 /\ ~applied.raised

\* C14: every longitude from -180 to 360 is converted to the longitude
\* congruent to it modulo 360 that lies in [-180, 180) when the grid has
\* negative longitudes and in [0, 360) otherwise.
C14_LongitudeNormalized ==
    applied.op = "NormalizeLongitude" =>
        /\ (applied.lon - applied.longitude) % 360 = 0
        /\ IF \E k \in 1..Len(applied.lonArray) : applied.lonArray[k] < 0
           THEN 0 - 180 <= applied.lon /\ applied.lon < 180
           ELSE 0 <= applied.lon /\ applied.lon < 360

\* C15: when the launch latitude is a latitude of the cell and the
\* converted launch longitude a longitude of the cell, each interpolated
\* field (height, temperature, windU, windV) is the value stored at that
\* grid vertex, also on the last grid line.
C15_CornerReproduced ==
    applied.op = "FieldAtSite" =>
        \A i \in 1..2, j \in 1..2 :
            (/\ applied.lat = Around(Dataset(applied.file).latArray,
                                     applied.cell.latIndex)[i]
             /\ applied.cell.lon = Around(Dataset(applied.file).lonArray,
                                          applied.cell.lonIndex)[j])
            => \A k \in 1..4 :
                  applied.fields[k] =
                      FieldValue(Dataset(applied.file), FileDictionary(applied.file),
                                 FieldNames(FileDictionary(applied.file))[k],
                                 applied.t, applied.m, applied.lev,
                                 applied.lat, applied.cell.lon)

\* the site is on the last latitude and the last longitude of the grid
C15_Witness ==
    /\ applied.op = "FieldAtSite" /\ applied.file = "era.nc"
    /\ applied.lat = Last(Dataset("era.nc").latArray)
    /\ applied.cell.lon = Last(Dataset("era.nc").lonArray)
    /\ applied.cell.latIndex = 2 /\ applied.cell.lonIndex = 2

\* C16: a launch time before the first or after the last time of the file
\* fails; a time inside the range that is not on the time axis is accepted
\* with the nearest index and a warning; a time on the axis gives neither.
C16_NearestTime ==
    applied.op = "date2index" =>
        LET onAxis == \E k \in 1..Len(applied.timeArray) :
                          applied.timeArray[k] = applied.t
        IN IF \/ applied.t < applied.timeArray[1]
              \/ applied.t > Last(applied.timeArray)
           THEN applied.raised
           ELSE /\ ~applied.raised
                /\ applied.warned = ~onAxis
                /\ \A k \in 1..Len(applied.timeArray) :
                       Abs(At(applied.timeArray, applied.timeIndex) - applied.t)
                           <= Abs(applied.timeArray[k] - applied.t)

\* a time between two times of the file, nearer to the later one
C16_Witness ==
    /\ applied.op = "date2index" /\ applied.timeArray = <<3, 6, 18, 24>>
    /\ applied.t = 13 /\ applied.timeIndex = 2 /\ applied.warned /\ ~applied.raised

\* C17: below -2000 the base pressure and above 80000 the top pressure;
\* from -2000 to 80000 the layer is the greatest i with breakpoint[i] <= H,
\* an index of the 9-entry table (the last at 80000, the first at -2000),
\* and the pressure is the one of that layer.
C17_LayerSelected ==
    applied.op = "pressure_function" =>
        IF applied.H < 0 - 2000 THEN applied.P = isa_pressure[1]
        ELSE IF applied.H > 80000 THEN applied.P = isa_pressure[9]
        ELSE /\ applied.layer \in 0..8
             /\ isa_geopotential_height[applied.layer + 1] <= applied.H
             /\ \A i \in 0..8 : isa_geopotential_height[i + 1] <= applied.H
                                    => i <= applied.layer
             /\ applied.H = 80000 => applied.layer = 8
             /\ applied.H = 0 - 2000 => applied.layer = 0
             /\ applied.P = LayerPressure(applied.layer, applied.H)

\* the top of the table
C17_Witness ==
    applied.op = "pressure_function" /\ applied.H = 80000 /\ applied.layer = 8

(***************************************************************************)
(* Propellant tanks (motors/Tank.py).  A profile over time is the sequence *)
(* of its values at the sampled times, two seconds apart.  The geometry is *)
(* a cylinder: volume(h) = area * (h - bottom).                            *)
(***************************************************************************)
NumSamples == 2        \* sampled times of a tank profile

SampleTimes == 1..NumSamples
geometry == [bottom |-> 0 - 2, top |-> 2, area |-> 3]
total_volume == geometry.area * (geometry.top - geometry.bottom)
volume(h) == geometry.area * (h - geometry.bottom)
inverse_volume(v) == geometry.bottom + v \div geometry.area
liquid == [density |-> 2]
gas == [density |-> 1]

\* (f > c).any() and (f < c).any()
AnyAbove(f, c) == \E k \in DOMAIN f : f[k] > c
AnyBelow(f, c) == \E k \in DOMAIN f : f[k] < c

\* f.integralFunction(): the trapezoids from the first sampled time on
RECURSIVE IntegralTo(_, _)
IntegralTo(f, k) == IF k = 1 THEN 0 ELSE IntegralTo(f, k - 1) + (f[k - 1] + f[k])
integralFunction(f) == [k \in DOMAIN f |-> IntegralTo(f, k)]
\* f.derivativeFunction(): the slope to the next sample, at the last sample
\* the slope from the one before
derivativeFunction(f) ==
    [k \in DOMAIN f |-> IF k < Len(f) THEN (f[k + 1] - f[k]) \div 2
                        ELSE IF k > 1 THEN (f[k] - f[k - 1]) \div 2
                        ELSE 0]

\* what reading a property gives: the profile, or the error raised
Gives(value) == [outcome |-> "returned", value |-> value]
Fails(error) == [outcome |-> error, value |-> <<>>]
\* arithmetic on a property that was read, sample by sample
Pointwise(read, Op(_)) ==
    IF read.outcome = "returned"
    THEN Gives([k \in DOMAIN read.value |-> Op(read.value[k])])
    ELSE read
\* the check "if (profile < 0).any(): raise ValueError(... is underfilled.)"
TankUnderfilled == "ValueError: The tank is underfilled."
TankOverfilled == "ValueError: The tank is overfilled."
Underfilled(profile) == IF AnyBelow(profile, 0) THEN Fails(TankUnderfilled) ELSE Gives(profile)

BlankTank ==
    [kind |-> None, initial_liquid_mass |-> 0, initial_gas_mass |-> 0,
     liquid_mass_flow_rate_in |-> <<>>, gas_mass_flow_rate_in |-> <<>>,
     liquid_mass_flow_rate_out |-> <<>>, gas_mass_flow_rate_out |-> <<>>,
     ullage |-> <<>>, liquid_height |-> <<>>, liquid_mass |-> <<>>, gas_mass |-> <<>>]

Built(self) == [outcome |-> "returned", tank |-> self]
NotBuilt(error) == [outcome |-> error, tank |-> NoTank]

\* MassFlowRateBasedTank.__init__
MassFlowRateBasedTank(initial_liquid_mass, initial_gas_mass, liquid_mass_flow_rate_in, gas_mass_flow_rate_in, liquid_mass_flow_rate_out, gas_mass_flow_rate_out) ==
    Built([BlankTank EXCEPT !.kind = "MassFlowRateBasedTank",
              !.initial_liquid_mass = initial_liquid_mass,
              !.initial_gas_mass = initial_gas_mass,
              !.liquid_mass_flow_rate_in = liquid_mass_flow_rate_in,
              !.gas_mass_flow_rate_in = gas_mass_flow_rate_in,
              !.liquid_mass_flow_rate_out = liquid_mass_flow_rate_out,
              !.gas_mass_flow_rate_out = gas_mass_flow_rate_out])

\* UllageBasedTank.__init__
UllageBasedTank(ullage) ==
    IF AnyAbove(ullage, total_volume) \/ AnyBelow(ullage, 0)
    THEN NotBuilt("ValueError")
    ELSE Built([BlankTank EXCEPT !.kind = "UllageBasedTank", !.ullage = ullage])

\* a constructor that checks the level against the top of the tank only
LevelBasedTankCheckingTop(liquid_height) ==
    IF AnyAbove(liquid_height, geometry.top)
    THEN NotBuilt("ValueError")
    ELSE Built([BlankTank EXCEPT !.kind = "LevelBasedTank",
                                 !.liquid_height = liquid_height])

\* LevelBasedTank.__init__
LevelBasedTank(liquid_height) ==
    IF AnyAbove(liquid_height, geometry.top) \/ AnyBelow(liquid_height, geometry.bottom)
    THEN NotBuilt("ValueError")
    ELSE Built([BlankTank EXCEPT !.kind = "LevelBasedTank",
                                 !.liquid_height = liquid_height])

\* MassBasedTank.__init__
MassBasedTank(liquid_mass, gas_mass) ==
    Built([BlankTank EXCEPT !.kind = "MassBasedTank", !.liquid_mass = liquid_mass,
                            !.gas_mass = gas_mass])

\* a net liquid flow that leaves the outflow out
liquidInflowRate(self) ==
    [k \in SampleTimes |-> self.liquid_mass_flow_rate_in[k]]

\* netLiquidFlowRate and netGasFlowRate of the flow-rate based tank
netLiquidFlowRate(self) ==
    [k \in SampleTimes |->
        self.liquid_mass_flow_rate_in[k] - self.liquid_mass_flow_rate_out[k]]
netGasFlowRate(self) ==
    [k \in SampleTimes |-> self.gas_mass_flow_rate_in[k] - self.gas_mass_flow_rate_out[k]]

\* the properties liquidMass, gasMass, liquidVolume and gasVolume, each as
\* the class of the tank defines it
RECURSIVE liquidMass(_), gasMass(_), liquidVolume(_), gasVolume(_)
liquidMass(self) ==
    CASE self.kind = "MassFlowRateBasedTank" ->
            Underfilled([k \in SampleTimes |->
                self.initial_liquid_mass + integralFunction(netLiquidFlowRate(self))[k]])
      [] self.kind = "MassBasedTank" -> Gives(self.liquid_mass)
      [] OTHER -> Pointwise(liquidVolume(self), LAMBDA v : v * liquid.density)

gasMass(self) ==
    CASE self.kind = "MassFlowRateBasedTank" ->
            Underfilled([k \in SampleTimes |->
                self.initial_gas_mass + integralFunction(netGasFlowRate(self))[k]])
      [] self.kind = "MassBasedTank" -> Gives(self.gas_mass)
      [] OTHER -> Pointwise(gasVolume(self), LAMBDA v : v * gas.density)

\* a liquid that fills the whole tank at all times
liquidVolumeOfFullTank(self) ==
    Gives([k \in SampleTimes |-> total_volume])

liquidVolume(self) ==
    CASE self.kind = "UllageBasedTank" ->
            Gives([k \in SampleTimes |-> 0 - (self.ullage[k] - total_volume)])
      [] self.kind = "LevelBasedTank" ->
            Gives([k \in SampleTimes |-> volume(self.liquid_height[k])])
      [] OTHER -> Pointwise(liquidMass(self), LAMBDA m : m \div liquid.density)

gasVolume(self) ==
    CASE self.kind = "UllageBasedTank" -> Gives(self.ullage)
      [] self.kind = "LevelBasedTank" ->
            Pointwise(liquidVolume(self), LAMBDA v : total_volume - v)
      [] OTHER -> Pointwise(gasMass(self), LAMBDA m : m \div gas.density)

\* fluid_volume = self.gasVolume + self.liquidVolume
FluidVolume(gas_volume, liquid_volume) ==
    IF gas_volume.outcome # "returned" THEN gas_volume
    ELSE IF liquid_volume.outcome # "returned" THEN liquid_volume
    ELSE Gives([k \in SampleTimes |-> gas_volume.value[k] + liquid_volume.value[k]])

\* a gas height that is returned whatever its value
gasHeightUnchecked(self) ==
    CASE self.kind \in {"UllageBasedTank", "LevelBasedTank"} ->
            Gives([k \in SampleTimes |-> geometry.top])
      [] OTHER -> Pointwise(FluidVolume(gasVolume(self), liquidVolume(self)),
                            LAMBDA v : inverse_volume(v))

\* the property gasHeight, as the class of the tank defines it
gasHeight(self) ==
    CASE self.kind \in {"UllageBasedTank", "LevelBasedTank"} ->
            Gives([k \in SampleTimes |-> geometry.top])
      [] self.kind = "MassFlowRateBasedTank" ->
            LET height == Pointwise(FluidVolume(gasVolume(self), liquidVolume(self)),
                                    LAMBDA v : inverse_volume(v))
            IN  IF height.outcome = "returned" /\ AnyAbove(height.value, geometry.top)
                THEN Fails(TankOverfilled)
                ELSE height
      [] OTHER -> Pointwise(FluidVolume(gasVolume(self), liquidVolume(self)),
                            LAMBDA v : inverse_volume(v))

\* the property mass: self.liquidMass + self.gasMass
mass(self) ==
    IF liquidMass(self).outcome # "returned" THEN liquidMass(self)
    ELSE IF gasMass(self).outcome # "returned" THEN gasMass(self)
    ELSE Gives([k \in SampleTimes |-> liquidMass(self).value[k] + gasMass(self).value[k]])

\* the property netMassFlowRate, as the class of the tank defines it
netMassFlowRate(self) ==
    CASE self.kind = "MassFlowRateBasedTank" ->
            Gives([k \in SampleTimes |->
                netLiquidFlowRate(self)[k] + netGasFlowRate(self)[k]])
      [] OTHER ->
            IF mass(self).outcome = "returned"
            THEN Gives(derivativeFunction(mass(self).value))
            ELSE mass(self)

Properties ==
    {"liquidMass", "gasMass", "liquidVolume", "gasVolume", "gasHeight", "mass",
     "netMassFlowRate"}
Read(self, property) ==
    CASE property = "liquidMass" -> liquidMass(self)
      [] property = "gasMass" -> gasMass(self)
      [] property = "liquidVolume" -> liquidVolume(self)
      [] property = "gasVolume" -> gasVolume(self)
      [] property = "gasHeight" -> gasHeight(self)
      [] property = "mass" -> mass(self)
      [] OTHER -> netMassFlowRate(self)

(***************************************************************************)
(* One tank: it is constructed from inputs drawn from bounded sets, then   *)
(* its properties are read.                                                *)
(***************************************************************************)
ProfilesOver(values) == [SampleTimes -> values]
Ullages == ProfilesOver({0 - 1, 0, 4, total_volume, total_volume + 1})
Heights == ProfilesOver({geometry.bottom - 1, geometry.bottom, 0, geometry.top,
                         geometry.top + 1})
LiquidMasses == ProfilesOver({0 - 2, 0, 6})
GasMasses == ProfilesOver({0 - 2, 0, 4})
LiquidFlowRates == ProfilesOver({0, 6})
GasFlowRates == ProfilesOver({0, 3})
InitialLiquidMasses == {0, 6, 24}
InitialGasMasses == {0, 3}

Constructs(variant, args, built) ==
    /\ construction = NotConstructed
    /\ construction' = [variant |-> variant, args |-> args, outcome |-> built.outcome]
    /\ tank' = built.tank
    /\ UNCHANGED <<envVars, lastCall, calls, loopVars, applied, evaluated, vehicleVars>>

ConstructMassFlowRateBasedTank ==
    /\ tank = NoTank
    /\ \E initial_liquid_mass \in InitialLiquidMasses,
          initial_gas_mass \in InitialGasMasses,
          flow_in \in LiquidFlowRates, gas_in \in GasFlowRates,
          flow_out \in LiquidFlowRates, gas_out \in GasFlowRates :
           Constructs("MassFlowRateBasedTank",
               <<initial_liquid_mass, initial_gas_mass, flow_in, gas_in, flow_out, gas_out>>,
               MassFlowRateBasedTank(initial_liquid_mass, initial_gas_mass, flow_in,
                   gas_in, flow_out, gas_out))

ConstructUllageBasedTank ==
    /\ tank = NoTank
    /\ \E ullage \in Ullages : Constructs("UllageBasedTank", <<ullage>>, UllageBasedTank(ullage))

ConstructLevelBasedTank ==
    /\ tank = NoTank
    /\ \E liquid_height \in Heights :
           Constructs("LevelBasedTank", <<liquid_height>>, LevelBasedTank(liquid_height))

ConstructMassBasedTank ==
    /\ tank = NoTank
    /\ \E liquid_mass \in LiquidMasses, gas_mass \in GasMasses :
           Constructs("MassBasedTank", <<liquid_mass, gas_mass>>,
                      MassBasedTank(liquid_mass, gas_mass))

\* a property of the tank is read
ReadProperty ==
    /\ tank # NoTank
    /\ \E property \in Properties :
           evaluated' = [property |-> property, outcome |-> Read(tank, property).outcome,
                         value |-> Read(tank, property).value]
    /\ UNCHANGED <<envVars, lastCall, calls, loopVars, applied, tank, construction,
                   vehicleVars>>

TankInit ==
    /\ Is(Environment(2, 0, NoDate))
    /\ lastCall = [op |-> "Environment", outcome |-> "returned", memberBefore |-> NoMember]
    /\ calls = 0
    /\ LoopIdle

TankNext ==
    \/ ConstructMassFlowRateBasedTank
    \/ ConstructUllageBasedTank
    \/ ConstructLevelBasedTank
    \/ ConstructMassBasedTank
    \/ ReadProperty

TankSpec == TankInit /\ [][TankNext]_vars

(***************************************************************************)
(* Properties of the tanks, checked under TankSpec.                        *)
(***************************************************************************)
\* C18: for every tank variant, a liquidMass, gasMass, liquidVolume or
\* gasVolume that was read without error has no negative value at any
\* sampled time (inputs that would make one negative fail instead).
C18_NeverNegative ==
    evaluated.property \in {"liquidMass", "gasMass", "liquidVolume", "gasVolume"}
    /\ evaluated.outcome = "returned" =>
        \A k \in DOMAIN evaluated.value : evaluated.value[k] >= 0

\* C19: for an ullage-based tank, liquidVolume(t) + gasVolume(t) is
\* geometry.total_volume at every sampled time.
C19_UllageConservesVolume ==
    tank.kind = "UllageBasedTank" =>
        /\ liquidVolume(tank).outcome = "returned"
        /\ gasVolume(tank).outcome = "returned"
        /\ \A k \in SampleTimes :
              liquidVolume(tank).value[k] + gasVolume(tank).value[k] = total_volume

\* the liquid volume of a tank whose ullage changes over time was read
C19_Witness ==
    /\ tank.kind = "UllageBasedTank" /\ tank.ullage = <<4, total_volume>>
    /\ evaluated.property = "liquidVolume" /\ evaluated.value = <<total_volume - 4, 0>>

\* C20: the constructor of a level-based tank raises when liquid_height is
\* above geometry.top or below geometry.bottom at any sample, before any
\* property is read, and constructs the tank when the profile stays
\* within [bottom, top].
C20_LevelCheckedAtConstruction ==
    construction.variant = "LevelBasedTank" =>
        IF \E k \in SampleTimes : \/ construction.args[1][k] > geometry.top
                                  \/ construction.args[1][k] < geometry.bottom
        THEN /\ construction.outcome = "ValueError"
             /\ tank = NoTank /\ evaluated = NotEvaluated
        ELSE /\ construction.outcome = "returned"
             /\ tank.kind = "LevelBasedTank"
             /\ tank.liquid_height = construction.args[1]

\* a level-based tank was refused for a level below the bottom
C20_Witness ==
    /\ construction.variant = "LevelBasedTank" /\ construction.outcome = "ValueError"
    /\ construction.args[1] = <<geometry.bottom - 1, 0>>
    /\ tank = NoTank

\* the time of the k-th sample, in seconds: the samples are two seconds apart
TimeOf(k) == 2 * (k - 1)

ConstantRate(f) == \A k \in SampleTimes : f[k] = f[1]

\* C21: for a flow-rate-based tank, liquidMass(t) is the initial liquid mass
\* plus the integral of the liquid inflow minus the integral of the liquid
\* outflow up to t; with a constant inflow rate r and no outflow it is read
\* without error and is M0 + r*T at every sampled time T.
C21_LiquidMassIntegratesFlow ==
    tank.kind = "MassFlowRateBasedTank" =>
        /\ liquidMass(tank).outcome = "returned" =>
               \A k \in SampleTimes :
                   liquidMass(tank).value[k] =
                       tank.initial_liquid_mass
                       + IntegralTo(tank.liquid_mass_flow_rate_in, k)
                       - IntegralTo(tank.liquid_mass_flow_rate_out, k)
        /\ ( /\ ConstantRate(tank.liquid_mass_flow_rate_in)
             /\ \A k \in SampleTimes : tank.liquid_mass_flow_rate_out[k] = 0 ) =>
               /\ liquidMass(tank).outcome = "returned"
               /\ \A k \in SampleTimes :
                      liquidMass(tank).value[k] =
                          tank.initial_liquid_mass
                          + tank.liquid_mass_flow_rate_in[1] * TimeOf(k)

\* the liquid mass of a tank filled at a constant rate of 6 from 6 was read
C21_Witness ==
    /\ tank.kind = "MassFlowRateBasedTank" /\ tank.initial_liquid_mass = 6
    /\ tank.liquid_mass_flow_rate_in = [k \in SampleTimes |-> 6]
    /\ tank.liquid_mass_flow_rate_out = [k \in SampleTimes |-> 0]
    /\ evaluated.property = "liquidMass" /\ evaluated.outcome = "returned"
    /\ evaluated.value[NumSamples] = 6 + 6 * TimeOf(NumSamples)

\* the masses a flow-rate-based tank integrates, without any check
IntegratedLiquidMass(self, k) ==
    self.initial_liquid_mass + IntegralTo(self.liquid_mass_flow_rate_in, k)
                             - IntegralTo(self.liquid_mass_flow_rate_out, k)
IntegratedGasMass(self, k) ==
    self.initial_gas_mass + IntegralTo(self.gas_mass_flow_rate_in, k)
                          - IntegralTo(self.gas_mass_flow_rate_out, k)
BelowZeroAtSomeTime(self) ==
    \E k \in SampleTimes : IntegratedLiquidMass(self, k) < 0 \/ IntegratedGasMass(self, k) < 0
\* the liquid and the gas together take more than the volume below the top
AboveTopAtSomeTime(self) ==
    \E k \in SampleTimes :
        IntegratedLiquidMass(self, k) * gas.density
        + IntegratedGasMass(self, k) * liquid.density
            > total_volume * liquid.density * gas.density

\* C22: a flow-rate-based tank checks its fill state when a property is
\* evaluated, at every sampled time and not only at t = 0: liquidMass
\* (gasMass) fails with the underfill error exactly when the integrated
\* liquid (gas) mass is below 0 at some sampled time, and gasHeight, whose
\* volumes come from these masses, fails with the underfill error when one
\* of them does and otherwise with the overfill error exactly when the
\* liquid and gas volumes together stand above geometry.top at some
\* sampled time.
C22_FillStateCheckedAtEvaluation ==
    tank.kind = "MassFlowRateBasedTank" =>
        /\ liquidMass(tank).outcome =
               IF \E k \in SampleTimes : IntegratedLiquidMass(tank, k) < 0
               THEN TankUnderfilled ELSE "returned"
        /\ gasMass(tank).outcome =
               IF \E k \in SampleTimes : IntegratedGasMass(tank, k) < 0
               THEN TankUnderfilled ELSE "returned"
        /\ gasHeight(tank).outcome =
               IF BelowZeroAtSomeTime(tank) THEN TankUnderfilled
               ELSE IF AboveTopAtSomeTime(tank) THEN TankOverfilled
               ELSE "returned"
        /\ evaluated.property \in {"liquidMass", "gasMass", "gasHeight"} =>
               evaluated.outcome = Read(tank, evaluated.property).outcome

\* a tank validly filled at t = 0 that overfills later had its gasHeight
\* evaluated, which failed
C22_Witness ==
    /\ tank.kind = "MassFlowRateBasedTank"
    /\ IntegratedLiquidMass(tank, 1) >= 0 /\ IntegratedGasMass(tank, 1) >= 0
    /\ IntegratedLiquidMass(tank, 1) * gas.density
       + IntegratedGasMass(tank, 1) * liquid.density
           <= total_volume * liquid.density * gas.density
    /\ ~BelowZeroAtSomeTime(tank) /\ AboveTopAtSomeTime(tank)
    /\ evaluated.property = "gasHeight" /\ evaluated.outcome = TankOverfilled

\* a tank validly filled at t = 0 that runs empty later had its liquidMass
\* evaluated, which failed
C22_WitnessUnderfill ==
    /\ tank.kind = "MassFlowRateBasedTank"
    /\ IntegratedLiquidMass(tank, 1) >= 0 /\ BelowZeroAtSomeTime(tank)
    /\ evaluated.property = "liquidMass" /\ evaluated.outcome = TankUnderfilled

\* the mass flow rates entering and exiting a flow-rate-based tank
FlowIn(self, k) == self.liquid_mass_flow_rate_in[k] + self.gas_mass_flow_rate_in[k]
FlowOut(self, k) == self.liquid_mass_flow_rate_out[k] + self.gas_mass_flow_rate_out[k]

\* C23: for every tank variant, netMassFlowRate(t) is the mass flow rate
\* exiting the tank minus the mass flow rate entering it, liquids and gases
\* together: for a flow-rate-based tank it is the outflows minus the
\* inflows at every sampled time, and for the other variants it is
\* positive where the mass falls to the next sample and negative where it
\* grows.
C23_NetFlowIsOutMinusIn ==
    evaluated.property = "netMassFlowRate" /\ evaluated.outcome = "returned" =>
        IF tank.kind = "MassFlowRateBasedTank"
        THEN \A k \in SampleTimes : evaluated.value[k] = FlowOut(tank, k) - FlowIn(tank, k)
        ELSE \A k \in 1..(NumSamples - 1) :
                /\ mass(tank).value[k + 1] < mass(tank).value[k] => evaluated.value[k] > 0
                /\ mass(tank).value[k + 1] > mass(tank).value[k] => evaluated.value[k] < 0

\* what the code computes: the inflows minus the outflows, and the slope of
\* the mass
C23_NetFlowIsInMinusOut ==
    evaluated.property = "netMassFlowRate" /\ evaluated.outcome = "returned" =>
        IF tank.kind = "MassFlowRateBasedTank"
        THEN \A k \in SampleTimes : evaluated.value[k] = FlowIn(tank, k) - FlowOut(tank, k)
        ELSE \A k \in 1..(NumSamples - 1) :
                evaluated.value[k] * TimeOf(2) = mass(tank).value[k + 1] - mass(tank).value[k]

(***************************************************************************)
(* A Rocket and its eccentricities (Rocket.py).  applied holds the last    *)
(* call made on the rocket and its arguments.                              *)
(***************************************************************************)
\* Rocket.__init__: "Eccentricity data initialization"
Rocket ==
    [cpEccentricityX |-> 0, cpEccentricityY |-> 0,
     thrustEccentricityY |-> 0, thrustEccentricityX |-> 0]

addCMEccentricity(self, x, y) ==
    [self EXCEPT !.cpEccentricityX = 0 - x, !.cpEccentricityY = 0 - y,
                 !.thrustEccentricityY = 0 - x, !.thrustEccentricityX = 0 - y]

addCPEccentricity(self, x, y) ==
    [self EXCEPT !.cpEccentricityX = x, !.cpEccentricityY = y]

\* a setter that stores x as the X and y as the Y eccentricity of the thrust
addThrustEccentricityByName(self, x, y) ==
    [self EXCEPT !.thrustEccentricityX = x, !.thrustEccentricityY = y]

addThrustEccentricity(self, x, y) ==
    [self EXCEPT !.thrustEccentricityY = x, !.thrustEccentricityX = y]

Eccentricities == {0 - 1, 0, 2}

OnRocket(op, x, y, self) ==
    /\ rocket' = self
    /\ applied' = [op |-> op, x |-> x, y |-> y]
    /\ UNCHANGED <<envVars, lastCall, calls, loopVars, tankVars, motor>>

ConstructRocket ==
    /\ rocket = NoRocket
    /\ OnRocket("Rocket", 0, 0, Rocket)

AddCMEccentricity ==
    /\ rocket # NoRocket
    /\ \E x \in Eccentricities, y \in Eccentricities :
           OnRocket("addCMEccentricity", x, y, addCMEccentricity(rocket, x, y))

AddCPEccentricity ==
    /\ rocket # NoRocket
    /\ \E x \in Eccentricities, y \in Eccentricities :
           OnRocket("addCPEccentricity", x, y, addCPEccentricity(rocket, x, y))

AddThrustEccentricity ==
    /\ rocket # NoRocket
    /\ \E x \in Eccentricities, y \in Eccentricities :
           OnRocket("addThrustEccentricity", x, y, addThrustEccentricity(rocket, x, y))

RocketInit ==
    /\ Is(Environment(2, 0, NoDate))
    /\ lastCall = [op |-> "Environment", outcome |-> "returned", memberBefore |-> NoMember]
    /\ calls = 0
    /\ LoopIdle

RocketNext ==
    \/ ConstructRocket
    \/ AddCMEccentricity
    \/ AddCPEccentricity
    \/ AddThrustEccentricity

RocketSpec == RocketInit /\ [][RocketNext]_vars

MaxTanks == 2          \* tanks added to a motor

\* what the object holds for a cached_property: nothing before the first
\* read that returned, the value of that read after it
NotCached == <<>>
Cached(value) == <<value>>

\* LiquidMotor.__init__: "self.positioned_tanks = []"
LiquidMotor ==
    [positioned_tanks |-> <<>>, propellantInitialMass |-> NotCached,
     inertiaTensor |-> NotCached]

\* addTank(tank, position)
addTank(self, tank_, position) ==
    [self EXCEPT !.positioned_tanks =
        Append(self.positioned_tanks, [tank |-> tank_, position |-> position])]

\* the sums of the loops over self.positioned_tanks, up to tank k
RECURSIVE totalMass(_, _)
totalMass(positioned_tanks, k) ==
    IF k = 0 THEN 0
    ELSE totalMass(positioned_tanks, k - 1) + positioned_tanks[k].tank.mass

RECURSIVE massBalance(_, _)
massBalance(positioned_tanks, k) ==
    IF k = 0 THEN 0
    ELSE massBalance(positioned_tanks, k - 1)
         + positioned_tanks[k].tank.mass
           * (positioned_tanks[k].position + positioned_tanks[k].tank.centerOfMass)

\* self.mass(0)
MotorMass(self) == totalMass(self.positioned_tanks, Len(self.positioned_tanks))

\* the sum of inertiaTensor's loop up to tank k, times the square of the
\* total mass M, for the centre of mass B / M
RECURSIVE inertiaI(_, _, _, _)
inertiaI(positioned_tanks, k, B, M) ==
    IF k = 0 THEN 0
    ELSE inertiaI(positioned_tanks, k - 1, B, M)
         + positioned_tanks[k].tank.inertiaTensor * M * M
         + positioned_tanks[k].tank.mass
           * (M * (positioned_tanks[k].position + positioned_tanks[k].tank.centerOfMass)
              - B)
           * (M * (positioned_tanks[k].position + positioned_tanks[k].tank.centerOfMass)
              - B)

\* the body of inertiaTensor: (inertiaI, inertiaI, inertiaZ), or the error
\* of massBalance / totalMass when no tank was added
ComputeInertiaTensor(self) ==
    LET n == Len(self.positioned_tanks)
        M == totalMass(self.positioned_tanks, n)
        B == massBalance(self.positioned_tanks, n)
    IN  IF M = 0 THEN [outcome |-> "ZeroDivisionError", value |-> <<>>]
        ELSE [outcome |-> "returned",
              value |-> << <<inertiaI(self.positioned_tanks, n, B, M), M * M>>,
                           <<inertiaI(self.positioned_tanks, n, B, M), M * M>>,
                           <<0, 1>> >>]

\* @cached_property propellantInitialMass: the value of the first read is
\* kept on the object and returned by every later read
propellantInitialMass(self) ==
    IF self.propellantInitialMass # NotCached
    THEN [outcome |-> "returned", value |-> self.propellantInitialMass[1], self |-> self]
    ELSE [outcome |-> "returned", value |-> MotorMass(self),
          self |-> [self EXCEPT !.propellantInitialMass = Cached(MotorMass(self))]]

\* @cached_property inertiaTensor: a read that raises keeps nothing
inertiaTensor(self) ==
    IF self.inertiaTensor # NotCached
    THEN [outcome |-> "returned", value |-> self.inertiaTensor[1], self |-> self]
    ELSE IF ComputeInertiaTensor(self).outcome # "returned"
    THEN [outcome |-> ComputeInertiaTensor(self).outcome, value |-> <<>>, self |-> self]
    ELSE [outcome |-> "returned", value |-> ComputeInertiaTensor(self).value,
          self |-> [self EXCEPT !.inertiaTensor =
                                    Cached(ComputeInertiaTensor(self).value)]]

\* the tanks a motor is given, by their mass, centre of mass and inertia
\* at t = 0, and the positions they are put at
MotorTanks ==
    {[mass |-> 6, centerOfMass |-> 1, inertiaTensor |-> 2],
     [mass |-> 4, centerOfMass |-> 0, inertiaTensor |-> 1]}
Positions == {0, 3}

OnMotor(record, self) ==
    /\ motor' = self
    /\ applied' = record
    /\ UNCHANGED <<envVars, lastCall, calls, loopVars, tankVars, rocket>>

ConstructLiquidMotor ==
    /\ motor = NoMotor
    /\ OnMotor([op |-> "LiquidMotor"], LiquidMotor)

AddTank ==
    /\ motor # NoMotor
    /\ Len(motor.positioned_tanks) < MaxTanks
    /\ \E tank_ \in MotorTanks, position \in Positions :
           OnMotor([op |-> "addTank", tank |-> tank_, position |-> position],
                   addTank(motor, tank_, position))

ReadPropellantInitialMass ==
    /\ motor # NoMotor
    /\ OnMotor([op |-> "propellantInitialMass",
                outcome |-> propellantInitialMass(motor).outcome,
                value |-> propellantInitialMass(motor).value],
               propellantInitialMass(motor).self)

ReadInertiaTensor ==
    /\ motor # NoMotor
    /\ OnMotor([op |-> "inertiaTensor", outcome |-> inertiaTensor(motor).outcome,
                value |-> inertiaTensor(motor).value],
               inertiaTensor(motor).self)

MotorInit ==
    /\ Is(Environment(2, 0, NoDate))
    /\ lastCall = [op |-> "Environment", outcome |-> "returned", memberBefore |-> NoMember]
    /\ calls = 0
    /\ LoopIdle

MotorNext ==
    \/ ConstructLiquidMotor
    \/ AddTank
    \/ ReadPropellantInitialMass
    \/ ReadInertiaTensor

MotorSpec == MotorInit /\ [][MotorNext]_vars

\* C30: whatever the interleaving of addTank calls and reads, a read of
\* propellantInitialMass gives the sum of mass(0) over all tanks added so
\* far, and a read of inertiaTensor that returns gives the tensor computed
\* from all tanks added so far.
C30_AggregatesFollowTanks ==
    /\ applied.op = "propellantInitialMass" =>
           applied.value = MotorMass(motor)
    /\ applied.op = "inertiaTensor" /\ applied.outcome = "returned" =>
           applied.value = ComputeInertiaTensor(motor).value

\* what the code does: a read gives what the first read that returned
\* computed, from the tanks the motor had then
C30_AggregatesOfFirstRead ==
    [][ motor # NoMotor =>
        /\ (applied'.op = "propellantInitialMass"
            /\ motor.propellantInitialMass # NotCached) =>
               applied'.value = motor.propellantInitialMass[1]
        /\ (applied'.op = "inertiaTensor" /\ motor.inertiaTensor # NotCached) =>
               applied'.value = motor.inertiaTensor[1]
        /\ motor.propellantInitialMass # NotCached =>
               motor'.propellantInitialMass = motor.propellantInitialMass
        /\ motor.inertiaTensor # NotCached =>
               motor'.inertiaTensor = motor.inertiaTensor ]_vars

(***************************************************************************)
(* Properties of the geodetic functions, checked under ApplySpec.          *)
(***************************************************************************)
\* C24: constructing an Environment with a datum name that is not one of
\* SAD69, WGS84, NAD83 or SIRGAS2000 succeeds and uses the SIRGAS2000
\* ellipsoid.
C24_UnknownDatumUsesSirgas ==
    applied.op = "Environment"
    /\ applied.datum \notin {"SAD69", "WGS84", "NAD83", "SIRGAS2000"} =>
        /\ applied.outcome = "returned"
        /\ applied.ellipsoid = geodesy(6378137, "1 / 298.257223563")

\* what the code does: a name of the table gets its ellipsoid, any other
\* name ends the constructor with an AttributeError
C24_UnknownDatumRaises ==
    applied.op = "Environment" =>
        IF applied.datum \in {"SAD69", "WGS84", "NAD83", "SIRGAS2000"}
        THEN applied.outcome = "returned" /\ applied.ellipsoid # NoEllipsoid
        ELSE applied.outcome = "AttributeError" /\ applied.ellipsoid = NoEllipsoid

\* C25: for every longitude in [-180, 180] the zone number geodesicToUtm
\* returns is between 1 and 60, and the longitude is within 3 degrees of
\* the central meridian 6*zone - 183 of that zone.
C25_LongitudeInsideZone ==
    applied.op = "geodesicToUtm" =>
        /\ applied.utmZone \in 1..60
        /\ Abs(applied.lon - (6 * applied.utmZone - 183)) <= 3

\* what the code does: the zone number is between 1 and 60, its central
\* meridian is the one utmToGeodesic reconstructs, and the longitude is
\* within 6 degrees of it
C25_ZoneInRange ==
    applied.op = "geodesicToUtm" =>
        /\ applied.utmZone \in 1..60
        /\ centralMeridian(applied.utmZone) = applied.lon_mc
        /\ Abs(applied.lon - applied.lon_mc) <= 6

=============================================================================
